---------------------------- MODULE Spec2Model ----------------------------
(***************************************************************************)
(* A model of the askama template compiler core:                           *)
(*   askama_derive/src/parser.rs     (split_ws_parts, the grammar, parse)  *)
(*   askama_derive/src/generator.rs  (State::new, Generator)               *)
(*                                                                         *)
(* The parser works on bytes: a template source is a sequence of byte      *)
(* values, and the names and literals in the nodes it returns are byte     *)
(* sequences.  The nom combinators the grammar is written with are         *)
(* modelled by their results Ok / Error / Incomplete on such a sequence.   *)
(*                                                                         *)
(* Text is modelled as a sequence of string tokens whose concatenation is  *)
(* the Rust string: `buf`, `code` and every argument of write/writeln are  *)
(* token sequences.  A line break is the token "\n", and the indentation   *)
(* of a line is a run of "    " tokens (four spaces each).                 *)
(***************************************************************************)
EXTENDS Integers, Sequences, FiniteSets, TLC

VARIABLES
    pc,       \* "new" | "build" | "run" | "done" | "panic" | "split" | "split_done"
              \* | "parse" | "parse_done"
    input,    \* TemplateInput and the parsed nodes handed to generate(); under
              \* SpecParse the pieces the template source is assembled from
    state,    \* the State built by State::new
    g,        \* the Generator that is currently emitting (self)
    stack,    \* the call stack of the tree walk: one frame per pending call
    err,      \* the panic message once generation has aborted, "" before
    bytes,    \* the argument of split_ws_parts, or of parse
    lit       \* what split_ws_parts or parse returned, <<>> before the call

vars == <<pc, input, state, g, stack, err, bytes, lit>>

---------------------------------------------------------------------------
(* parser.rs: the AST *)

WS(pre, post) == <<pre, post>>

NoWS == WS(FALSE, FALSE)

AllWS == {WS(a, b) : a \in BOOLEAN, b \in BOOLEAN}

NumLit(s) == [e |-> "NumLit", s |-> s]

StrLit(s) == [e |-> "StrLit", s |-> s]

Var(s) == [e |-> "Var", s |-> s]

Path(segs) == [e |-> "Path", path |-> segs]

Array(els) == [e |-> "Array", elements |-> els]

Attr(obj, name) == [e |-> "Attr", obj |-> obj, name |-> name]

Filter(name, args) == [e |-> "Filter", name |-> name, args |-> args]

Unary(op, inner) == [e |-> "Unary", op |-> op, inner |-> inner]

BinOp(op, left, right) == [e |-> "BinOp", op |-> op, left |-> left, right |-> right]

Group(inner) == [e |-> "Group", inner |-> inner]

MethodCall(obj, method, args) == [e |-> "MethodCall", obj |-> obj, method |-> method, args |-> args]

Macro(ws1, args, nodes, ws2) == [ws1 |-> ws1, args |-> args, nodes |-> nodes, ws2 |-> ws2]

Lit(lws, val, rws) == [n |-> "Lit", lws |-> lws, val |-> val, rws |-> rws]

Comment(ws) == [n |-> "Comment", ws |-> ws]

ExprNode(ws, expr) == [n |-> "Expr", ws |-> ws, expr |-> expr]

Call(ws, scope, name, args) == [n |-> "Call", ws |-> ws, scope |-> scope, name |-> name, args |-> args]

LetDecl(ws, var) == [n |-> "LetDecl", ws |-> ws, var |-> var]

Let(ws, var, val) == [n |-> "Let", ws |-> ws, var |-> var, val |-> val]

\* Cond(arms, ws): an arm is <<ws, cond, nodes>>, cond = <<>> (None) or <<expr>>
Cond(conds, ws) == [n |-> "Cond", conds |-> conds, ws |-> ws]

\* Match: inter = <<>> (None) or <<lws>>; an arm is <<ws, variant, params, body>>
Match(ws1, expr, inter, arms, ws2) == [n |-> "Match", ws1 |-> ws1, expr |-> expr, inter |-> inter, arms |-> arms, ws2 |-> ws2]

Loop(ws1, var, iter, body, ws2) == [n |-> "Loop", ws1 |-> ws1, var |-> var, iter |-> iter, body |-> body, ws2 |-> ws2]

Extends(expr) == [n |-> "Extends", expr |-> expr]

BlockDef(ws1, name, nodes, ws2) == [n |-> "BlockDef", ws1 |-> ws1, name |-> name, nodes |-> nodes, ws2 |-> ws2]

Include(ws, path) == [n |-> "Include", ws |-> ws, path |-> path]

Import(ws, path, scope) == [n |-> "Import", ws |-> ws, path |-> path, scope |-> scope]

MacroNode(name, m) == [n |-> "Macro", name |-> name, m |-> m]

\* MatchVariant and MatchParameter: <<kind, text>>; a Path variant carries its segments
MatchVariant(kind, s) == [v |-> kind, s |-> s]

MatchParameter(kind, s) == [p |-> kind, s |-> s]

---------------------------------------------------------------------------
(* parser.rs: split_ws_parts.  A byte string is a sequence of byte values. *)

\* the closure `is_ws` of split_ws_parts: despite its name it is true of the
\* bytes that are NOT whitespace
is_ws(c) == c # 32 /\ c # 9 /\ c # 13 /\ c # 10

\* Iterator::position: the first index (from 0) whose byte satisfies is_ws, or <<>>
position(s) == LET hits == {i \in 1..Len(s) : is_ws(s[i])}
               IN IF hits = {} THEN <<>> ELSE <<(CHOOSE i \in hits : \A j \in hits : i <= j) - 1>>

rposition_first(s) == LET hits == {i \in 1..Len(s) : is_ws(s[i])}
                      IN IF hits = {} THEN <<>> ELSE <<(CHOOSE i \in hits : \A j \in hits : i <= j) - 1>>

\* Iterator::rposition: the last such index (from 0), or <<>>
rposition(s) == LET hits == {i \in 1..Len(s) : is_ws(s[i])}
                IN IF hits = {} THEN <<>> ELSE <<(CHOOSE i \in hits : \A j \in hits : i >= j) - 1>>

\* the Rust slice s[a..b], indices from 0, b exclusive
Slice(s, a, b) == SubSeq(s, a + 1, b)

split_ws_parts(s) ==
    IF s = <<>> THEN Lit(s, s, s)
    ELSE LET start == position(s)
             res == IF start = <<>> THEN <<s, Slice(s, 0, 0), Slice(s, 0, 0)>>
                    ELSE LET end == rposition(s)
                         IN IF end = <<>>
                            THEN <<Slice(s, 0, start[1]), Slice(s, start[1], Len(s)), Slice(s, 0, 0)>>
                            ELSE <<Slice(s, 0, start[1]), Slice(s, start[1], end[1] + 1),
                                   Slice(s, end[1] + 1, Len(s))>>
         IN Lit(res[1], res[2], res[3])

---------------------------------------------------------------------------
(* parser.rs: the grammar.  A template source is a sequence of byte values.  *)
(* A parser takes the remaining input and returns POk(rest, val), or PErr    *)
(* (nom::Err::Error: the enclosing alt!, opt! or many0! goes on), or         *)
(* PIncomplete (the input ended inside a token) or PPanic: the last two pass *)
(* through every combinator and end the parse.                               *)

\* the printable ASCII characters, from code 32 to code 126 (96 by its name)
Printable ==
    <<" ", "!", "\"", "#", "$", "%", "&", "'", "(", ")", "*", "+", ",", "-", ".", "/",
      "0", "1", "2", "3", "4", "5", "6", "7", "8", "9", ":", ";", "<", "=", ">", "?",
      "@", "A", "B", "C", "D", "E", "F", "G", "H", "I", "J", "K", "L", "M", "N", "O",
      "P", "Q", "R", "S", "T", "U", "V", "W", "X", "Y", "Z", "[", "\\", "]", "^", "_",
      "grave", "a", "b", "c", "d", "e", "f", "g", "h", "i", "j", "k", "l", "m", "n", "o",
      "p", "q", "r", "s", "t", "u", "v", "w", "x", "y", "z", "{", "|", "}", "~">>

\* the byte of a character
Code(c) ==
    CASE c = "\t" -> 9 [] c = "\n" -> 10 [] c = "\r" -> 13
      [] OTHER -> 31 + CHOOSE i \in 1..Len(Printable) : Printable[i] = c

\* the bytes of a text given as its characters
Bs(chars) == [i \in 1..Len(chars) |-> Code(chars[i])]

POk(rest, val) == [kind |-> "Ok", rest |-> rest, val |-> val]

PErr == [kind |-> "Error", rest |-> <<>>, val |-> <<>>]

PIncomplete == [kind |-> "Incomplete", rest |-> <<>>, val |-> <<>>]

PPanic == [kind |-> "Panic", rest |-> <<>>, val |-> <<>>]

\* do_parse!(p >> ...): r is the result of p, and K what follows it, which is
\* run on an Ok only
Then(r, K(_)) == IF r.kind = "Ok" THEN K(r) ELSE r

\* alt!(p | q): r is the result of p, and q is tried after an Error only
OrElse(r, q) == IF r.kind = "Error" THEN q ELSE r

\* map!(p, F)
Map(r, F(_)) == IF r.kind = "Ok" THEN POk(r.rest, F(r.val)) ELSE r

\* one round of many0!(p) or many1!(p): r is the result of p; an Error ends the
\* loop with `done`, and K goes on after an Ok
Round(r, done, K(_)) == IF r.kind = "Error" THEN done ELSE Then(r, K)

\* the rest of s from the index i (from 0): &s[i..]
From(s, i) == SubSeq(s, i + 1, Len(s))

\* tag_s!(t): t is compared with the input as far as both go
tag(t, s) ==
    LET n == IF Len(t) < Len(s) THEN Len(t) ELSE Len(s)
    IN IF SubSeq(s, 1, n) # SubSeq(t, 1, n) THEN PErr
       ELSE IF Len(s) < Len(t) THEN PIncomplete
       ELSE POk(From(s, Len(t)), t)

\* opt!(p): the result r of p on s, made optional (None is <<>>, Some(v) is <<v>>)
opt(r, s) ==
    IF r.kind = "Error" THEN POk(s, <<>>)
    ELSE IF r.kind = "Ok" THEN POk(r.rest, <<r.val>>)
    ELSE r

\* the whitespace ws! skips: eat_separator!(" \t\r\n")
sp(s) ==
    LET stops == {i \in 1..Len(s) : s[i] \notin {32, 9, 13, 10}}
    IN IF stops = {} THEN <<>> ELSE From(s, (CHOOSE i \in stops : \A j \in stops : i <= j) - 1)

\* ws!(p) on s is ws_after(p(sp(s)))
ws_after(r) == IF r.kind = "Ok" THEN POk(sp(r.rest), r.val) ELSE r

\* ws!(tag_s!(t))
ws_tag(t, s) == ws_after(tag(t, sp(s)))

\* alt!(tag_s!(t1) | tag_s!(t2) | ...), the tags in the order of ts
RECURSIVE alt_tags(_, _)
alt_tags(ts, s) ==
    IF ts = <<>> THEN PErr
    ELSE LET r == tag(Head(ts), s)
         IN IF r.kind = "Error" THEN alt_tags(Tail(ts), s) ELSE r

is_alphabetic(c) == c \in (65..90) \cup (97..122)

\* the index (from 0) of the first byte of s that is not in the class, or Len(s)
Span(s, class) ==
    LET stops == {i \in 1..Len(s) : s[i] \notin class}
    IN IF stops = {} THEN Len(s) ELSE (CHOOSE i \in stops : \A j \in stops : i <= j) - 1

IdentBytes == (65..90) \cup (97..122) \cup (48..57) \cup {95}

identifier(s) ==
    IF s = <<>> THEN PPanic
    ELSE IF ~is_alphabetic(s[1]) /\ s[1] # 95 THEN PErr
    ELSE LET i == 1 + Span(Tail(s), IdentBytes)
         IN IF i < Len(s) THEN POk(From(s, i), SubSeq(s, 1, i))
            ELSE POk(From(s, 1), SubSeq(s, 1, 1))

\* nom::digit: one or more digits, followed by something else
num_lit(s) ==
    LET n == Span(s, 48..57)
    IN IF n = Len(s) THEN PIncomplete
       ELSE IF n = 0 THEN PErr
       ELSE POk(From(s, n), SubSeq(s, 1, n))

\* expr_str_lit: a double quote, take_until! the next double quote, and that quote
str_lit(s) ==
    IF s = <<>> THEN PIncomplete
    ELSE IF s[1] # 34 THEN PErr
    ELSE LET n == Span(Tail(s), (0..255) \ {34})
         IN IF n = Len(s) - 1 THEN PIncomplete
            ELSE POk(From(s, n + 2), SubSeq(s, 2, n + 1))

---------------------------------------------------------------------------
(* parser.rs: expressions *)

\* the operators of expr_muldivmod (1), expr_addsub, expr_shifts, expr_band,
\* expr_bxor, expr_bor, expr_compare, expr_and and expr_any (9), each list in
\* the order of its alt!
LayerOps ==
    <<<<Bs(<<"*">>), Bs(<<"/">>), Bs(<<"%">>)>>,
      <<Bs(<<"+">>), Bs(<<"-">>)>>,
      <<Bs(<<">", ">">>), Bs(<<"<", "<">>)>>,
      <<Bs(<<"&">>)>>,
      <<Bs(<<"^">>)>>,
      <<Bs(<<"|">>)>>,
      <<Bs(<<"=", "=">>), Bs(<<"!", "=">>), Bs(<<">", "=">>), Bs(<<">">>), Bs(<<"<", "=">>), Bs(<<"<">>)>>,
      <<Bs(<<"&", "&">>)>>,
      <<Bs(<<"|", "|">>)>>>>

RECURSIVE expr_any(_)
RECURSIVE expr_layers(_, _, _)
RECURSIVE expr_single(_)
RECURSIVE expr_list_rest(_, _, _)
RECURSIVE attrs_from(_, _)
RECURSIVE filters_from(_, _)
RECURSIVE path_rest(_, _)

\* many0!(tag_s!(",") >> ws!(expr_any)) of `arguments`; for an array literal
\* (padded) many0!(ws!(tag_s!(",")) >> expr_any)
expr_list_rest(acc, s, padded) ==
    Round(Then(IF padded THEN ws_tag(<<44>>, s) ELSE tag(<<44>>, s), LAMBDA comma:
               IF padded THEN expr_any(comma.rest) ELSE ws_after(expr_any(sp(comma.rest)))),
          POk(s, acc),
          LAMBDA item: expr_list_rest(Append(acc, item.val), item.rest, padded))

\* tag_s!("(") >> opt!(ws!(expr_any) >> many0!(...)) >> tag_s!(")"); no
\* arguments is the empty list
arguments(s) ==
    Then(tag(<<40>>, s), LAMBDA open:
    Then(OrElse(Then(ws_after(expr_any(sp(open.rest))), LAMBDA arg0:
                     expr_list_rest(<<arg0.val>>, arg0.rest, FALSE)),
                POk(open.rest, <<>>)), LAMBDA inner:
    Then(tag(<<41>>, inner.rest), LAMBDA close:
    POk(close.rest, inner.val))))

expr_array_lit(s) ==
    Then(ws_tag(<<91>>, s), LAMBDA open:
    Then(expr_any(open.rest), LAMBDA first:
    Then(expr_list_rest(<<first.val>>, first.rest, TRUE), LAMBDA rest:
    Then(ws_tag(<<93>>, rest.rest), LAMBDA close:
    POk(close.rest, Array(rest.val))))))

\* many1!(tag_s!("::") >> identifier), met so far: acc
path_rest(acc, s) ==
    Round(Then(tag(<<58, 58>>, s), LAMBDA sep: identifier(sep.rest)),
          IF Len(acc) < 2 THEN PErr ELSE POk(s, acc),
          LAMBDA part: path_rest(Append(acc, part.val), part.rest))

expr_path(s) ==
    Then(identifier(s), LAMBDA start:
    Map(path_rest(<<start.val>>, start.rest), Path))

expr_group(s) ==
    Then(tag(<<40>>, s), LAMBDA open:
    Then(expr_any(open.rest), LAMBDA inner:
    Then(tag(<<41>>, inner.rest), LAMBDA close:
    POk(close.rest, Group(inner.val)))))

expr_single(s) ==
    OrElse(Map(num_lit(s), NumLit),
    OrElse(Map(str_lit(s), StrLit),
    OrElse(expr_path(s),
    OrElse(expr_array_lit(s),
    OrElse(Map(identifier(s), Var),
           expr_group(s))))))

\* the parser `attr`: tag_s!(".") >> alt!(num_lit | identifier) >> opt!(arguments); the
\* value is <<name, args>>, args = <<>> (None) or <<list>>
attr_part(s) ==
    Then(tag(<<46>>, s), LAMBDA dot:
    Then(OrElse(num_lit(dot.rest), identifier(dot.rest)), LAMBDA name:
    Then(opt(arguments(name.rest), name.rest), LAMBDA args:
    POk(args.rest, <<name.val, args.val>>))))

\* many0!(attr), folded over the object met so far
attrs_from(res, s) ==
    Round(attr_part(s),
          POk(s, res),
          LAMBDA a: attrs_from(IF a.val[2] # <<>> THEN MethodCall(res, a.val[1], a.val[2][1])
                               ELSE Attr(res, a.val[1]), a.rest))

expr_attr(s) ==
    Then(expr_single(s), LAMBDA obj: attrs_from(obj.val, obj.rest))

filter(s) ==
    Then(tag(<<124>>, s), LAMBDA bar:
    Then(identifier(bar.rest), LAMBDA fname:
    Then(opt(arguments(fname.rest), fname.rest), LAMBDA args:
    POk(args.rest, <<fname.val, args.val>>))))

\* many0!(filter), folded: the value so far becomes the first argument
filters_from(res, s) ==
    Round(filter(s),
          POk(s, res),
          LAMBDA f: filters_from(Filter(f.val[1], <<res>> \o (IF f.val[2] # <<>> THEN f.val[2][1] ELSE <<>>)),
                                 f.rest))

expr_filtered(s) ==
    Then(expr_attr(s), LAMBDA obj: filters_from(obj.val, obj.rest))

expr_unary(s) ==
    Then(opt(alt_tags(<<<<33>>, <<45>>>>, s), s), LAMBDA op:
    Then(expr_filtered(op.rest), LAMBDA expr:
    POk(expr.rest, IF op.val # <<>> THEN Unary(op.val[1], expr.val) ELSE expr.val)))

\* a layer whose right operand is parsed by the layer below it
expr_prec_layer_inner(level, left) ==
    OrElse(Then(ws_after(alt_tags(LayerOps[level], sp(left.rest))), LAMBDA op:
           Then(expr_layers(1, level - 1, expr_unary(op.rest)), LAMBDA right:
           POk(right.rest, BinOp(op.val, left.val, right.val)))),
           left)

\* expr_prec_layer!(name, inner, ops): the layer `level` of the nine, after its
\* inner parser (the layer below it, expr_unary below the first) returned the
\* Ok `left`; the right operand, behind opt!, is parsed by expr_any
expr_prec_layer(level, left) ==
    OrElse(Then(ws_after(alt_tags(LayerOps[level], sp(left.rest))), LAMBDA op:
           Then(expr_any(op.rest), LAMBDA right:
           POk(right.rest, BinOp(op.val, left.val, right.val)))),
           left)

\* the layers from `level` to `top`, each on the result of the one below it:
\* `left` is the result of the layer below `level`
expr_layers(level, top, left) ==
    IF level > top \/ left.kind # "Ok" THEN left
    ELSE expr_layers(level + 1, top, expr_prec_layer(level, left))

\* expr_any is the ninth layer
expr_any(s) == expr_layers(1, 9, expr_unary(s))

---------------------------------------------------------------------------
(* parser.rs: nodes *)

RECURSIVE content_end(_, _, _)
RECURSIVE parse_template_from(_, _)
RECURSIVE cond_blocks_from(_, _)
RECURSIVE when_blocks_from(_, _)
RECURSIVE names_rest(_, _, _)

\* the loop of take_content from the index idx (from 0), in the state Any
\* (brace = <<>>) or Brace(start) (brace = <<start>>): <<start>> once the state
\* is End(start), <<>> when the input ends before
content_end(s, idx, brace) ==
    IF idx >= Len(s) THEN <<>>
    ELSE IF brace = <<>> THEN content_end(s, idx + 1, IF s[idx + 1] = 123 THEN <<idx>> ELSE <<>>)
    ELSE IF s[idx + 1] \in {123, 37, 35} THEN brace
    ELSE content_end(s, idx + 1, <<>>)

take_content(s) ==
    LET end == content_end(s, 0, <<>>)
    IN IF end = <<>> THEN POk(Slice(s, 0, 0), split_ws_parts(s))
       ELSE IF end[1] = 0 THEN PErr
       ELSE POk(From(s, end[1]), split_ws_parts(Slice(s, 0, end[1])))

parse_template(s) == parse_template_from(<<>>, s)

\* opt!(tag_s!("-"))
opt_dash(s) == opt(tag(<<45>>, s), s)

\* the index (from 0) of the first "#}" of s, or <<>>: take_until_s!
find_comment_end(s) ==
    LET hits == {i \in 1..(Len(s) - 1) : s[i] = 35 /\ s[i + 1] = 125}
    IN IF hits = {} THEN <<>> ELSE <<(CHOOSE i \in hits : \A j \in hits : i <= j) - 1>>

block_comment(s) ==
    Then(tag(<<123, 35>>, s), LAMBDA open:
    Then(opt_dash(open.rest), LAMBDA pws:
    Then(LET end == find_comment_end(pws.rest)
         IN IF end = <<>> THEN PIncomplete
            ELSE POk(From(pws.rest, end[1]), Slice(pws.rest, 0, end[1])), LAMBDA inner:
    Then(tag(<<35, 125>>, inner.rest), LAMBDA close:
    POk(close.rest,
        Comment(WS(pws.val # <<>>,
                   Len(inner.val) > 1 /\ inner.val[Len(inner.val)] = 45)))))))

expr_node(s) ==
    Then(tag(<<123, 123>>, s), LAMBDA open:
    Then(opt_dash(open.rest), LAMBDA pws:
    Then(ws_after(expr_any(sp(pws.rest))), LAMBDA expr:
    Then(opt_dash(expr.rest), LAMBDA nws:
    Then(tag(<<125, 125>>, nws.rest), LAMBDA close:
    POk(close.rest, ExprNode(WS(pws.val # <<>>, nws.val # <<>>), expr.val)))))))

\* delimited!(char!('"'), is_not!("\""), char!('"')): the string is not empty
param_str_lit(s) ==
    Then(tag(<<34>>, s), LAMBDA open:
         LET n == Span(open.rest, (0..255) \ {34})
         IN IF n = Len(open.rest) THEN PIncomplete
            ELSE IF n = 0 THEN PErr
            ELSE POk(From(open.rest, n + 1), SubSeq(open.rest, 1, n)))

\* alt!(param_name | param_num_lit | param_str_lit)
match_parameter(s) ==
    OrElse(Map(identifier(s), LAMBDA v: MatchParameter("Name", v)),
    OrElse(Map(num_lit(s), LAMBDA v: MatchParameter("NumLit", v)),
           Map(param_str_lit(s), LAMBDA v: MatchParameter("StrLit", v))))

\* many0!(tag_s!(",") >> ws!(p)) for p = identifier, or match_parameter (params)
\* after the first item of `parameters` and `with_parameters`
names_rest(acc, s, params) ==
    Round(Then(tag(<<44>>, s), LAMBDA comma:
               ws_after(IF params THEN match_parameter(sp(comma.rest)) ELSE identifier(sp(comma.rest)))),
          POk(s, acc),
          LAMBDA item: names_rest(Append(acc, item.val), item.rest, params))

\* the list between the parentheses of `parameters` (of identifiers) and of
\* `with_parameters` (params: of match parameters), from the byte after "("
names_list(s, params) ==
    Then(OrElse(Then(ws_after(IF params THEN match_parameter(sp(s)) ELSE identifier(sp(s))), LAMBDA arg0:
                     names_rest(<<arg0.val>>, arg0.rest, params)),
                POk(s, <<>>)), LAMBDA vals:
    Then(tag(<<41>>, vals.rest), LAMBDA close:
    POk(close.rest, vals.val)))

parameters(s) ==
    Then(tag(<<40>>, s), LAMBDA open: names_list(open.rest, FALSE))

with_parameters(s) ==
    Then(tag(Bs(<<"w", "i", "t", "h">>), s), LAMBDA with:
    Then(ws_tag(<<40>>, with.rest), LAMBDA open:
    names_list(open.rest, TRUE)))

\* alt!(variant_path | variant_name | variant_num_lit | variant_str_lit)
match_variant(s) ==
    OrElse(Map(Then(identifier(s), LAMBDA start: path_rest(<<start.val>>, start.rest)),
               LAMBDA v: MatchVariant("Path", v)),
           Map(match_parameter(s), LAMBDA p: MatchVariant(p.p, p.s)))

block_call_node(s) ==
    Then(opt_dash(s), LAMBDA pws:
    Then(ws_tag(Bs(<<"c", "a", "l", "l">>), pws.rest), LAMBDA call:
    Then(opt(Then(ws_after(identifier(sp(call.rest))), LAMBDA sname:
             Then(ws_tag(<<58, 58>>, sname.rest), LAMBDA colons:
             POk(colons.rest, sname.val))), call.rest), LAMBDA scope:
    Then(ws_after(identifier(sp(scope.rest))), LAMBDA name:
    Then(ws_after(arguments(sp(name.rest))), LAMBDA args:
    Then(opt_dash(args.rest), LAMBDA nws:
    POk(nws.rest, Call(WS(pws.val # <<>>, nws.val # <<>>), scope.val, name.val, args.val))))))))

block_let(s) ==
    Then(opt_dash(s), LAMBDA pws:
    Then(ws_tag(Bs(<<"l", "e", "t">>), pws.rest), LAMBDA let:
    Then(ws_after(identifier(sp(let.rest))), LAMBDA var:
    Then(opt(Then(ws_tag(<<61>>, var.rest), LAMBDA eq: ws_after(expr_any(sp(eq.rest)))),
             var.rest), LAMBDA val:
    Then(opt_dash(val.rest), LAMBDA nws:
    POk(nws.rest, IF val.val # <<>>
                  THEN Let(WS(pws.val # <<>>, nws.val # <<>>), var.val, val.val[1])
                  ELSE LetDecl(WS(pws.val # <<>>, nws.val # <<>>), var.val)))))))

cond_if(s) ==
    Then(ws_tag(Bs(<<"i", "f">>), s), LAMBDA if: ws_after(expr_any(sp(if.rest))))

\* an arm after the first: {% else %} or {% else if cond %}, and its body
cond_block(s) ==
    Then(tag(<<123, 37>>, s), LAMBDA open:
    Then(opt_dash(open.rest), LAMBDA pws:
    Then(ws_tag(Bs(<<"e", "l", "s", "e">>), pws.rest), LAMBDA else:
    Then(opt(cond_if(else.rest), else.rest), LAMBDA cond:
    Then(opt_dash(cond.rest), LAMBDA nws:
    Then(tag(<<37, 125>>, nws.rest), LAMBDA close:
    Then(parse_template(close.rest), LAMBDA block:
    POk(block.rest, <<WS(pws.val # <<>>, nws.val # <<>>), cond.val, block.val>>))))))))

\* many0!(cond_block)
cond_blocks_from(acc, s) ==
    Round(cond_block(s),
          POk(s, acc),
          LAMBDA arm: cond_blocks_from(Append(acc, arm.val), arm.rest))

block_if(s) ==
    Then(opt_dash(s), LAMBDA pws1:
    Then(ws_after(cond_if(sp(pws1.rest))), LAMBDA cond:
    Then(opt_dash(cond.rest), LAMBDA nws1:
    Then(tag(<<37, 125>>, nws1.rest), LAMBDA close:
    Then(parse_template(close.rest), LAMBDA block:
    Then(cond_blocks_from(<<>>, block.rest), LAMBDA elifs:
    Then(tag(<<123, 37>>, elifs.rest), LAMBDA open:
    Then(opt_dash(open.rest), LAMBDA pws2:
    Then(ws_tag(Bs(<<"e", "n", "d", "i", "f">>), pws2.rest), LAMBDA endif:
    Then(opt_dash(endif.rest), LAMBDA nws2:
    POk(nws2.rest,
        Cond(<<<<WS(pws1.val # <<>>, nws1.val # <<>>), <<cond.val>>, block.val>>>> \o elifs.val,
             WS(pws2.val # <<>>, nws2.val # <<>>)))))))))))))

block_for(s) ==
    Then(opt_dash(s), LAMBDA pws1:
    Then(ws_tag(Bs(<<"f", "o", "r">>), pws1.rest), LAMBDA for:
    Then(ws_after(identifier(sp(for.rest))), LAMBDA var:
    Then(ws_tag(Bs(<<"i", "n">>), var.rest), LAMBDA in:
    Then(ws_after(expr_any(sp(in.rest))), LAMBDA iter:
    Then(opt_dash(iter.rest), LAMBDA nws1:
    Then(tag(<<37, 125>>, nws1.rest), LAMBDA close:
    Then(parse_template(close.rest), LAMBDA block:
    Then(tag(<<123, 37>>, block.rest), LAMBDA open:
    Then(opt_dash(open.rest), LAMBDA pws2:
    Then(ws_tag(Bs(<<"e", "n", "d", "f", "o", "r">>), pws2.rest), LAMBDA endfor:
    Then(opt_dash(endfor.rest), LAMBDA nws2:
    POk(nws2.rest, Loop(WS(pws1.val # <<>>, nws1.val # <<>>), var.val, iter.val, block.val,
                        WS(pws2.val # <<>>, nws2.val # <<>>)))))))))))))))

\* when_block (else = FALSE) and match_else_block (else = TRUE): an arm is
\* <<ws, variant, params, body>>, variant = <<>> for the else arm
when_block(s, is_else) ==
    Then(tag(<<123, 37>>, s), LAMBDA open:
    Then(opt_dash(open.rest), LAMBDA pws:
    Then(ws_tag(IF is_else THEN Bs(<<"e", "l", "s", "e">>) ELSE Bs(<<"w", "h", "e", "n">>), pws.rest), LAMBDA kw:
    Then(IF is_else THEN POk(kw.rest, <<>>) ELSE ws_after(match_variant(sp(kw.rest))), LAMBDA variant:
    Then(IF is_else THEN POk(kw.rest, <<>>)
         ELSE opt(ws_after(with_parameters(sp(variant.rest))), variant.rest), LAMBDA params:
    Then(opt_dash(params.rest), LAMBDA nws:
    Then(tag(<<37, 125>>, nws.rest), LAMBDA close:
    Then(parse_template(close.rest), LAMBDA block:
    POk(block.rest,
        <<WS(pws.val # <<>>, nws.val # <<>>), IF is_else THEN <<>> ELSE <<variant.val>>,
          IF params.val # <<>> THEN params.val[1] ELSE <<>>, block.val>>)))))))))

\* many1!(when_block)
when_blocks_from(acc, s) ==
    Round(when_block(s, FALSE),
          IF acc = <<>> THEN PErr ELSE POk(s, acc),
          LAMBDA arm: when_blocks_from(Append(acc, arm.val), arm.rest))

block_match(s) ==
    Then(opt_dash(s), LAMBDA pws1:
    Then(ws_tag(Bs(<<"m", "a", "t", "c", "h">>), pws1.rest), LAMBDA match:
    Then(ws_after(expr_any(sp(match.rest))), LAMBDA expr:
    Then(opt_dash(expr.rest), LAMBDA nws1:
    Then(tag(<<37, 125>>, nws1.rest), LAMBDA close:
    Then(opt(take_content(close.rest), close.rest), LAMBDA inter:
    Then(when_blocks_from(<<>>, inter.rest), LAMBDA arms:
    Then(opt(when_block(arms.rest, TRUE), arms.rest), LAMBDA else_arm:
    Then(ws_tag(<<123, 37>>, else_arm.rest), LAMBDA open:
    Then(opt_dash(open.rest), LAMBDA pws2:
    Then(ws_tag(Bs(<<"e", "n", "d", "m", "a", "t", "c", "h">>), pws2.rest), LAMBDA endmatch:
    Then(opt_dash(endmatch.rest), LAMBDA nws2:
    IF inter.val # <<>> /\ (inter.val[1].val # <<>> \/ inter.val[1].rws # <<>>) THEN PPanic
    ELSE POk(nws2.rest,
             Match(WS(pws1.val # <<>>, nws1.val # <<>>), expr.val,
                   IF inter.val # <<>> THEN <<inter.val[1].lws>> ELSE <<>>,
                   arms.val \o else_arm.val,
                   WS(pws2.val # <<>>, nws2.val # <<>>)))))))))))))))

block_extends(s) ==
    Then(ws_tag(Bs(<<"e", "x", "t", "e", "n", "d", "s">>), s), LAMBDA extends:
    Then(ws_after(str_lit(sp(extends.rest))), LAMBDA name:
    POk(name.rest, Extends(StrLit(name.val)))))

\* block_block (kw "block", end "endblock", named) and block_macro (kw "macro",
\* end "endmacro", with parameters): the value is the node
block_body(s, is_macro) ==
    Then(opt_dash(s), LAMBDA pws1:
    Then(ws_tag(IF is_macro THEN Bs(<<"m", "a", "c", "r", "o">>) ELSE Bs(<<"b", "l", "o", "c", "k">>),
                pws1.rest), LAMBDA kw:
    Then(ws_after(identifier(sp(kw.rest))), LAMBDA name:
    Then(IF is_macro THEN ws_after(parameters(sp(name.rest))) ELSE POk(name.rest, <<>>), LAMBDA params:
    Then(opt_dash(params.rest), LAMBDA nws1:
    Then(tag(<<37, 125>>, nws1.rest), LAMBDA close:
    Then(parse_template(close.rest), LAMBDA contents:
    Then(tag(<<123, 37>>, contents.rest), LAMBDA open:
    Then(opt_dash(open.rest), LAMBDA pws2:
    Then(ws_tag(IF is_macro THEN Bs(<<"e", "n", "d", "m", "a", "c", "r", "o">>)
                ELSE Bs(<<"e", "n", "d", "b", "l", "o", "c", "k">>), pws2.rest), LAMBDA end:
    Then(IF is_macro THEN POk(end.rest, <<>>) ELSE opt(ws_tag(name.val, end.rest), end.rest), LAMBDA again:
    Then(opt_dash(again.rest), LAMBDA nws2:
    POk(nws2.rest,
        IF is_macro
        THEN MacroNode(name.val, Macro(WS(pws1.val # <<>>, nws1.val # <<>>), params.val,
                                       contents.val, WS(pws2.val # <<>>, nws2.val # <<>>)))
        ELSE BlockDef(WS(pws1.val # <<>>, nws1.val # <<>>), name.val, contents.val,
                      WS(pws2.val # <<>>, nws2.val # <<>>)))))))))))))))

block_block(s) == block_body(s, FALSE)

block_macro(s) == block_body(s, TRUE)

block_include(s) ==
    Then(opt_dash(s), LAMBDA pws:
    Then(ws_tag(Bs(<<"i", "n", "c", "l", "u", "d", "e">>), pws.rest), LAMBDA include:
    Then(ws_after(str_lit(sp(include.rest))), LAMBDA name:
    Then(opt_dash(name.rest), LAMBDA nws:
    POk(nws.rest, Include(WS(pws.val # <<>>, nws.val # <<>>), name.val))))))

block_import(s) ==
    Then(opt_dash(s), LAMBDA pws:
    Then(ws_tag(Bs(<<"i", "m", "p", "o", "r", "t">>), pws.rest), LAMBDA import:
    Then(ws_after(str_lit(sp(import.rest))), LAMBDA name:
    Then(ws_tag(Bs(<<"a", "s">>), name.rest), LAMBDA as:
    Then(ws_after(identifier(sp(as.rest))), LAMBDA scope:
    Then(opt_dash(scope.rest), LAMBDA nws:
    POk(nws.rest, Import(WS(pws.val # <<>>, nws.val # <<>>), name.val, scope.val))))))))

\* the k-th alternative of block_node's alt!
block_alternative(k, s) ==
    CASE k = 1 -> block_call_node(s)
      [] k = 2 -> block_let(s)
      [] k = 3 -> block_if(s)
      [] k = 4 -> block_for(s)
      [] k = 5 -> block_match(s)
      [] k = 6 -> block_extends(s)
      [] k = 7 -> block_include(s)
      [] k = 8 -> block_import(s)
      [] k = 9 -> block_block(s)
      [] k = 10 -> block_macro(s)

\* alt!: the result of the first of the alternatives `live`, those that do not
\* give Error; Error when there is none
first_block(live, s) ==
    IF live = {} THEN PErr
    ELSE block_alternative(CHOOSE k \in live : \A j \in live : k <= j, s)

alt_blocks(s) == first_block({k \in 1..10 : block_alternative(k, s).kind # "Error"}, s)

block_node(s) ==
    Then(tag(<<123, 37>>, s), LAMBDA open:
    Then(alt_blocks(open.rest), LAMBDA contents:
    Then(tag(<<37, 125>>, contents.rest), LAMBDA close:
    POk(close.rest, contents.val))))

\* many0!(alt!(take_content | block_comment | expr_node | block_node)), the
\* nodes met so far in acc; a round that consumes nothing ends it
parse_template_from(acc, s) ==
    Round(OrElse(take_content(s),
          OrElse(block_comment(s),
          OrElse(expr_node(s),
                 block_node(s)))),
          POk(s, acc),
          LAMBDA r: IF r.rest = s THEN (IF s = <<>> THEN POk(s, acc) ELSE PErr)
                    ELSE parse_template_from(Append(acc, r.val), r.rest))

\* the match of parse on what parse_template returned
parse_result(r) ==
    IF r.kind = "Ok"
    THEN IF r.rest # <<>> THEN [panic |-> "unable to parse template", nodes |-> <<>>]
         ELSE [panic |-> "", nodes |-> r.val]
    ELSE IF r.kind = "Incomplete" THEN [panic |-> "parsing incomplete", nodes |-> <<>>]
    ELSE IF r.kind = "Error" THEN [panic |-> "problems parsing template source", nodes |-> <<>>]
    ELSE [panic |-> "index out of bounds", nodes |-> <<>>]

\* parse: the nodes, or the panic
parse(src) == parse_result(parse_template(src))

---------------------------------------------------------------------------
(* generator.rs: SetChain *)

SetChain_new == [parent |-> <<>>, scopes |-> <<{}>>]

with_parent(parent) == [parent |-> <<parent>>, scopes |-> <<{}>>]

RECURSIVE contains(_, _)
contains(sc, val) ==
    \/ \E i \in 1..Len(sc.scopes) : val \in sc.scopes[i]
    \/ (sc.parent # <<>> /\ contains(sc.parent[1], val))

insert(sc, val) == [sc EXCEPT !.scopes[Len(sc.scopes)] = @ \cup {val}]

push(sc) == [sc EXCEPT !.scopes = Append(@, {})]

pop_keep(sc) == sc

\* scopes.pop().unwrap(); the assertion that a scope is left is in locals_pop
pop(sc) == [sc EXCEPT !.scopes = SubSeq(@, 1, Len(@) - 1)]

---------------------------------------------------------------------------
(* generator.rs: Generator, its buffer and its whitespace machine *)

\* `overflow_checks` is not a field of the struct: it records whether the crate
\* is built with overflow checks (a debug build) or without (a release build)
Generator_new(locals, ind) ==
    [buf |-> <<>>, indent |-> ind, start |-> TRUE, locals |-> locals,
     next_ws |-> <<>>, skip_ws |-> FALSE, vars |-> 0, impl_blocks |-> FALSE,
     panic |-> "", overflow_checks |-> FALSE]

Generator_default == Generator_new(SetChain_new, 0)

\* a child whose scope chain does not link to the one of `self`
child_unlinked(gen) ==
    [Generator_new(SetChain_new, gen.indent) EXCEPT !.overflow_checks = gen.overflow_checks]

child(gen) ==
    [Generator_new(with_parent(gen.locals), gen.indent)
        EXCEPT !.overflow_checks = gen.overflow_checks]

\* a panic unwinds: the first message is kept, the output is discarded
Panic(gen, msg) == IF gen.panic # "" THEN gen ELSE [gen EXCEPT !.panic = msg]

locals_push(gen) == [gen EXCEPT !.locals = push(@)]

locals_insert(gen, val) == [gen EXCEPT !.locals = insert(@, val)]

locals_pop(gen) ==
    IF Len(gen.locals.scopes) <= 1
    THEN Panic(gen, "assertion failed: !self.scopes.is_empty()")
    ELSE [gen EXCEPT !.locals = pop(@)]

\* u8 arithmetic of `indent`
U8(n) == n % 256

\* self.indent += 1 on a u8: the sum wraps, or panics where overflow is checked
indent(gen) ==
    IF gen.indent + 1 > 255 /\ gen.overflow_checks
    THEN Panic(gen, "attempt to add with overflow")
    ELSE [gen EXCEPT !.indent = U8(@ + 1)]

dedent(gen) ==
    IF gen.indent = 0 THEN Panic(gen, "dedent() called while indentation == 0")
    ELSE [gen EXCEPT !.indent = @ - 1]

\* n spaces, n a multiple of four, as "    " tokens
Spaces(n) == [i \in 1..(n \div 4) |-> "    "]

\* the plain text of write: the space count is the u8 product, wrapped
write_wrapping(gen, s) ==
    IF gen.start
    THEN [gen EXCEPT !.buf = @ \o Spaces(U8(gen.indent * 4)) \o s, !.start = FALSE]
    ELSE [gen EXCEPT !.buf = @ \o s]

\* self.indent * 4 on a u8: the product wraps, or panics where overflow is checked
write(gen, s) ==
    IF gen.start /\ gen.indent * 4 > 255 /\ gen.overflow_checks
    THEN Panic(gen, "attempt to multiply with overflow")
    ELSE write_wrapping(gen, s)

\* the tokens this generator writes that end in '{'
BraceTokens == {"{", " {", " => {", ").into_iter().enumerate() {", ").deref() {"}

ends_with_brace(s) == s # <<>> /\ s[Len(s)] \in BraceTokens

writeln(gen, s) ==
    IF s = <<>> THEN gen
    ELSE LET g1 == IF s = <<"}">> THEN dedent(gen) ELSE gen
             g2 == write(g1, s)
             g3 == IF ends_with_brace(s) THEN indent(g2) ELSE g2
         IN [g3 EXCEPT !.buf = Append(@, "\n"), !.start = TRUE]

\* <str as Debug>::fmt without its quotes, on the strings the templates hold:
\* tab, line feed and carriage return are written as escapes
escape_debug(s) ==
    CASE s = "\t" -> "\\t"
      [] s = "\n" -> "\\n"
      [] s = "\r" -> "\\r"
      [] OTHER -> s

\* format!("writer.write_str({:#?})?;", s)
write_str(s) == <<"writer.write_str(", "\"", escape_debug(s), "\"", ")?;">>

flush_ws(gen, ws) ==
    LET g1 == IF gen.next_ws # <<>> /\ ~ws[1]
              THEN IF gen.next_ws[1] # "" THEN writeln(gen, write_str(gen.next_ws[1])) ELSE gen
              ELSE gen
    IN [g1 EXCEPT !.next_ws = <<>>]

prepare_ws(gen, ws) == [gen EXCEPT !.skip_ws = ws[2]]

handle_ws(gen, ws) == prepare_ws(flush_ws(gen, ws), ws)

write_lit(gen, lws, val, rws) ==
    LET g0 == IF gen.next_ws # <<>>
              THEN Panic(gen, "assertion failed: self.next_ws.is_none()") ELSE gen
        g1 == IF lws # ""
              THEN IF g0.skip_ws THEN [g0 EXCEPT !.skip_ws = FALSE]
                   ELSE IF val = ""
                        THEN [(IF rws # "" THEN Panic(g0, "assertion failed: rws.is_empty()") ELSE g0)
                                EXCEPT !.next_ws = <<lws>>]
                        ELSE writeln(g0, write_str(lws))
              ELSE g0
        g2 == IF val # "" THEN writeln(g1, write_str(val)) ELSE g1
    IN IF rws # "" THEN [g2 EXCEPT !.next_ws = <<rws>>] ELSE g2

write_comment(gen, ws) == handle_ws(gen, ws)

---------------------------------------------------------------------------
(* generator.rs: the expression visitors.  Each returns R(gen, code, wrapped): *)
(* the generator after the visit (lifted temporaries are written to its buf),  *)
(* the code string with the expression appended, and the DisplayWrap.          *)

Wrapped == TRUE

Unwrapped == FALSE

R(gen, code, wrapped) == [g |-> gen, code |-> code, wrapped |-> wrapped]

\* shared::filters::BUILT_IN_FILTERS, the filter catalogue
BUILT_IN_FILTERS == {"e", "escape", "format", "join", "json", "lower", "lowercase",
                     "safe", "trim", "truncate", "upper", "uppercase"}

RECURSIVE visit_expr(_, _, _)
RECURSIVE visit_args_from(_, _, _, _)
RECURSIVE visit_join_from(_, _, _, _)
RECURSIVE visit_array_from(_, _, _, _)

visit_num_lit(gen, s, code) == R(gen, code \o <<s>>, Unwrapped)

visit_str_lit(gen, s, code) == R(gen, code \o <<"\"", s, "\"">>, Unwrapped)

visit_var(gen, s, code) ==
    IF contains(gen.locals, s) THEN R(gen, code \o <<s>>, Unwrapped)
    ELSE R(gen, code \o <<"self.", s>>, Unwrapped)

\* the path segments joined by "::"
visit_path(gen, path, code) ==
    LET toks == [i \in 1..(2 * Len(path) - 1) |-> IF i % 2 = 1 THEN path[(i + 1) \div 2] ELSE "::"]
    IN R(gen, code \o (IF path = <<>> THEN <<>> ELSE toks), Unwrapped)

visit_array_from(gen, elements, i, code) ==
    IF i > Len(elements) THEN R(gen, code, Unwrapped)
    ELSE LET r == visit_expr(gen, elements[i], IF i > 1 THEN code \o <<", ">> ELSE code)
         IN visit_array_from(r.g, elements, i + 1, r.code)

visit_array(gen, elements, code) ==
    LET r == visit_array_from(gen, elements, 1, code \o <<"[">>)
    IN R(r.g, r.code \o <<"]">>, Unwrapped)

\* one round of the loop of _visit_args, for argument i (from 1)
visit_args_from(gen, args, i, code) ==
    IF i > Len(args) THEN R(gen, code, Unwrapped)
    ELSE LET c1 == IF i > 1 THEN code \o <<", &">> ELSE code
             arg == args[i]
             intercept == arg.e \in {"Filter", "MethodCall"}
             r == visit_expr(gen, arg, c1)
             offset == Len(c1)
             idx == r.g.vars
             lifted == writeln([r.g EXCEPT !.vars = @ + 1],
                               <<"let ", "var", ToString(idx), " = ">>
                                   \o SubSeq(r.code, offset + 1, Len(r.code)) \o <<";">>)
         IN IF intercept
            THEN visit_args_from(lifted, args, i + 1,
                                 SubSeq(r.code, 1, offset) \o <<"var", ToString(idx)>>)
            ELSE visit_args_from(r.g, args, i + 1, r.code)

_visit_args_inline(gen, args, code) == visit_array_from(gen, args, 1, code)

_visit_args(gen, args, code) == visit_args_from(gen, args, 1, code)

_visit_format_filter(gen, args, code) ==
    LET r == _visit_args(gen, args, code \o <<"format!(">>)
    IN R(r.g, r.code \o <<")">>, Unwrapped)

visit_join_from(gen, args, i, code) ==
    IF i > Len(args) THEN R(gen, code, Unwrapped)
    ELSE LET r == visit_expr(gen, args[i], IF i > 1 THEN code \o <<", &">> ELSE code)
         IN visit_join_from(r.g, args, i + 1,
                            IF i = 1 THEN r.code \o <<").into_iter()">> ELSE r.code)

_visit_join_filter(gen, args, code) ==
    LET r == visit_join_from(gen, args, 1, code \o <<"::askama::filters::join((&">>)
    IN R(r.g, r.code \o <<")?">>, Unwrapped)

visit_filter_unwrapped(gen, name, args, code) ==
    LET r == _visit_args(gen, args, code \o <<"filters::", name, "(&">>)
    IN R(r.g, r.code \o <<")?">>, Unwrapped)

visit_filter(gen, name, args, code) ==
    IF name = "format" THEN _visit_format_filter(gen, args, code)
    ELSE IF name = "join" THEN _visit_join_filter(gen, args, code)
    ELSE LET c1 == IF name \in BUILT_IN_FILTERS
                   THEN code \o <<"::askama::filters::", name, "(&">>
                   ELSE code \o <<"filters::", name, "(&">>
             r == _visit_args(gen, args, c1)
         IN R(r.g, r.code \o <<")?">>,
              IF name = "safe" \/ name = "escape" \/ name = "e" \/ name = "json"
              THEN Wrapped ELSE Unwrapped)

visit_attr(gen, obj, attr, code) ==
    IF obj.e = "Var" /\ obj.s = "loop"
    THEN LET c1 == code \o <<"_loop_index">>
         IN IF attr = "index" THEN R(gen, c1 \o <<" ", "+", " ", "1">>, Unwrapped)
            ELSE IF attr = "index0" THEN R(gen, c1, Unwrapped)
            ELSE R(Panic(gen, "unknown loop variable"), c1, Unwrapped)
    ELSE LET r == visit_expr(gen, obj, code)
         IN R(r.g, r.code \o <<".", attr>>, Unwrapped)

visit_method_call(gen, obj, method, args, code) ==
    LET r0 == IF obj.e = "Var" /\ obj.s = "self" THEN R(gen, code \o <<"self">>, Unwrapped)
              ELSE visit_expr(gen, obj, code)
        r1 == _visit_args(r0.g, args, r0.code \o <<".", method, "(">>)
    IN R(r1.g, r1.code \o <<")">>, Unwrapped)

visit_unary(gen, op, inner, code) ==
    LET r == visit_expr(gen, inner, code \o <<op>>)
    IN R(r.g, r.code, Unwrapped)

visit_binop(gen, op, left, right, code) ==
    LET l == visit_expr(gen, left, code)
        r == visit_expr(l.g, right, l.code \o <<" ", op, " ">>)
    IN R(r.g, r.code, Unwrapped)

visit_group(gen, inner, code) ==
    LET r == visit_expr(gen, inner, code \o <<"(">>)
    IN R(r.g, r.code \o <<")">>, Unwrapped)

visit_expr(gen, expr, code) ==
    CASE expr.e = "NumLit" -> visit_num_lit(gen, expr.s, code)
      [] expr.e = "StrLit" -> visit_str_lit(gen, expr.s, code)
      [] expr.e = "Var" -> visit_var(gen, expr.s, code)
      [] expr.e = "Path" -> visit_path(gen, expr.path, code)
      [] expr.e = "Array" -> visit_array(gen, expr.elements, code)
      [] expr.e = "Attr" -> visit_attr(gen, expr.obj, expr.name, code)
      [] expr.e = "Filter" -> visit_filter(gen, expr.name, expr.args, code)
      [] expr.e = "Unary" -> visit_unary(gen, expr.op, expr.inner, code)
      [] expr.e = "BinOp" -> visit_binop(gen, expr.op, expr.left, expr.right, code)
      [] expr.e = "Group" -> visit_group(gen, expr.inner, code)
      [] expr.e = "MethodCall" -> visit_method_call(gen, expr.obj, expr.method, expr.args, code)

visit_expr_root(gen, expr) == visit_expr(gen, expr, <<>>)

\* code.push_str(...); self.write(&code) of visit_match_variant
visit_match_variant(gen, param) ==
    LET code == CASE param.v = "StrLit" -> <<"\"", param.s, "\"">>
                  [] param.v = "NumLit" -> <<"&", param.s>>
                  [] param.v = "Name" -> <<"&", param.s>>
                  [] param.v = "Path" -> <<"&">> \o visit_path(gen, param.s, <<>>).code
    IN write(gen, code)

visit_match_param(gen, param) ==
    LET code == CASE param.p = "NumLit" -> <<param.s>>
                  [] param.p = "StrLit" -> <<"\"", param.s, "\"">>
                  [] param.p = "Name" -> <<"ref ", param.s>>
    IN write(gen, code)

\* Target::Name is the only target
visit_target(target) == <<target>>

---------------------------------------------------------------------------
(* generator.rs: State::new *)

\* char::is_alphanumeric on the code points the model's paths are made of
is_alphanumeric(c) == c \in (48..57) \cup (65..90) \cup (97..122) \cup {233}

\* the character c as text, for the code points that are kept
CharToken(c) == CASE c = 97 -> "a" [] c = 98 -> "b" [] c = 99 -> "c" [] c = 49 -> "1"
                  [] c = 90 -> "Z" [] c = 233 -> "e-acute" [] OTHER -> "?"

HexDigit(d) == CASE d = 0 -> "0" [] d = 1 -> "1" [] d = 2 -> "2" [] d = 3 -> "3"
                 [] d = 4 -> "4" [] d = 5 -> "5" [] d = 6 -> "6" [] d = 7 -> "7"
                 [] d = 8 -> "8" [] d = 9 -> "9" [] d = 10 -> "a" [] d = 11 -> "b"
                 [] d = 12 -> "c" [] d = 13 -> "d" [] d = 14 -> "e" [] d = 15 -> "f"

\* format!("{:04x}", n): lower-case hexadecimal, padded with zeros to four digits
LowerHex04(n) ==
    <<HexDigit((n \div 4096) % 16), HexDigit((n \div 256) % 16),
      HexDigit((n \div 16) % 16), HexDigit(n % 16)>>

\* format!("{:x}", n): lower-case hexadecimal, no padding
RECURSIVE LowerHex(_)
LowerHex(n) == IF n < 16 THEN <<HexDigit(n)>> ELSE LowerHex(n \div 16) \o <<HexDigit(n % 16)>>

RECURSIVE trait_name_chars(_)
trait_name_chars(path) ==
    IF path = <<>> THEN <<>>
    ELSE (IF is_alphanumeric(Head(path)) THEN <<CharToken(Head(path))>> ELSE LowerHex(Head(path)))
         \o trait_name_chars(Tail(path))

trait_name_for_path(path) == <<"TraitFrom">> \o trait_name_chars(path)

\* shared::path::find_template_from_path: the path a template name resolves to
find_template_from_path(name, dirs) == dirs \o name

IsBlockDef(n) == n.n = "BlockDef"

\* no sweep: the top-level blocks only
nested_sweep_none(blocks, check_nested) == blocks

\* the `while check_nested < blocks.len()` sweep, from index check_nested (from 0)
RECURSIVE nested_sweep(_, _)
nested_sweep(blocks, check_nested) ==
    IF check_nested >= Len(blocks) THEN blocks
    ELSE nested_sweep(blocks \o SelectSeq(blocks[check_nested + 1].nodes, IsBlockDef),
                      check_nested + 1)

IsExtends(n) == n.n = "Extends"

IsMacro(n) == n.n = "Macro"

\* HashMap::insert in node order: the last macro of a name is the one kept
local_macro(nodes, name) ==
    LET idx == {i \in 1..Len(nodes) : IsMacro(nodes[i]) /\ nodes[i].name = name}
    IN nodes[CHOOSE i \in idx : \A j \in idx : i >= j].m

\* the imported macros stored without their scope
macro_map_unscoped(nodes, imported) ==
    LET lkeys == {<<<<>>, nodes[i].name>> : i \in {j \in 1..Len(nodes) : IsMacro(nodes[j])}}
        ikeys == {<<<<>>, k[2]>> : k \in DOMAIN imported}
    IN [k \in lkeys \cup ikeys |->
          IF k \in lkeys THEN local_macro(nodes, k[2])
          ELSE imported[CHOOSE i \in DOMAIN imported : i[2] = k[2]]]

macro_map(nodes, imported) ==
    LET lkeys == {<<<<>>, nodes[i].name>> : i \in {j \in 1..Len(nodes) : IsMacro(nodes[j])}}
        ikeys == {<<<<k[1]>>, k[2]>> : k \in DOMAIN imported}
    IN [k \in lkeys \cup ikeys |->
          IF k[1] = <<>> THEN local_macro(nodes, k[2]) ELSE imported[<<k[1][1], k[2]>>]]

extends_count_first(inp) == IF SelectSeq(inp.nodes, IsExtends) = <<>> THEN 0 ELSE 1

\* the number of top-level Extends nodes the first loop of State::new meets
extends_count(inp) == Len(SelectSeq(inp.nodes, IsExtends))

State_new(inp) ==
    LET bases == SelectSeq(inp.nodes, IsExtends)
    IN [panic |-> IF extends_count(inp) >= 2 THEN "multiple extend blocks found" ELSE "",
        blocks |-> nested_sweep(SelectSeq(inp.nodes, IsBlockDef), 0),
        macros |-> macro_map(inp.nodes, inp.imported),
        trait_name |-> IF bases # <<>>
                       THEN trait_name_for_path(find_template_from_path(bases[1].expr.s, inp.dirs))
                       ELSE trait_name_for_path(inp.path),
        derived |-> bases # <<>>]

---------------------------------------------------------------------------
(* generator.rs: the node handlers.  A handler that walks a nested node      *)
(* sequence is cut at its calls of handle(): one operator per stretch.       *)

write_header(gen, target) == writeln(gen, <<"impl", " ">> \o target \o <<" for ", "Host", " {">>)

write_expr(gen, escaping, ws, s) ==
    LET g1 == handle_ws(gen, ws)
        r == visit_expr(g1, s, <<>>)
        g2 == writeln(r.g, <<"let askama_expr = &">> \o r.code \o <<";">>)
        g3 == write(g2, <<"writer.write_fmt(format_args!(\"{}\", ">>)
        g4 == write(g3, IF r.wrapped = Unwrapped /\ escaping = "Html"
                        THEN <<"&::askama::MarkupDisplay::from(askama_expr)">>
                        ELSE <<"askama_expr">>)
    IN writeln(g4, <<"))?;">>)

write_let_decl(gen, ws, var) ==
    LET g1 == write(handle_ws(gen, ws), <<"let ">>)
        g2 == write(locals_insert(g1, var), <<var>>)
    IN writeln(g2, <<";">>)

write_let(gen, ws, var, val) ==
    LET r == visit_expr(handle_ws(gen, ws), val, <<>>)
        g1 == IF ~contains(r.g.locals, var)
              THEN locals_insert(write(r.g, <<"let ">>), var) ELSE r.g
        g2 == write(g1, <<var>>)
    IN write(g2, <<" = ">> \o r.code \o <<";">>)

block_call(ctx, name) == <<ctx, ".render_block_", name, "_into(writer)?;">>

write_block_self(gen, ws1, name, ws2) ==
    prepare_ws(writeln(flush_ws(gen, ws1), block_call("self", name)), ws2)

write_block(gen, ws1, name, ws2) ==
    LET g1 == flush_ws(gen, ws1)
        ctx == IF gen.impl_blocks THEN "timpl" ELSE "self"
    IN prepare_ws(writeln(g1, block_call(ctx, name)), ws2)

\* write_cond, one round of its loop up to the call of handle(): arm i (from 0)
cond_arm(gen, i, arm) ==
    LET g1 == handle_ws(gen, arm[1])
        r == visit_expr_root(g1, arm[2][1])
        g2 == IF arm[2] # <<>>
              THEN write(IF i = 0 THEN write(r.g, <<"if ">>)
                         ELSE write(dedent(r.g), <<"} else if ">>), r.code)
              ELSE write(dedent(g1), <<"} else">>)
    IN locals_push(writeln(g2, <<" {">>))

\* write_cond after its loop
cond_end(gen, ws) == writeln(handle_ws(gen, ws), <<"}">>)

\* write_match up to its loop
match_begin(gen, ws1, expr, inter) ==
    LET g1 == flush_ws(gen, ws1)
        g2 == IF inter # <<>> /\ inter[1] # "" THEN [g1 EXCEPT !.next_ws = inter] ELSE g1
        r == visit_expr_root(g2, expr)
    IN writeln(r.g, <<"match (&">> \o r.code \o <<").deref() {">>)

RECURSIVE match_params_from(_, _, _)
match_params_from(gen, params, i) ==
    IF i > Len(params) THEN gen
    ELSE LET g1 == IF params[i].p = "Name" THEN locals_insert(gen, params[i].s) ELSE gen
             g2 == IF i > 1 THEN write(g1, <<", ">>) ELSE g1
         IN match_params_from(visit_match_param(g2, params[i]), params, i + 1)

\* write_match, one round of its loop up to the call of handle()
match_arm(gen, arm) ==
    LET g1 == locals_push(gen)
        g2 == IF arm[2] # <<>> THEN visit_match_variant(g1, arm[2][1]) ELSE write(g1, <<"_">>)
        g3 == IF arm[3] # <<>>
              THEN write(match_params_from(write(g2, <<"(">>), arm[3], 1), <<")">>)
              ELSE g2
    IN handle_ws(writeln(g3, <<" => {">>), arm[1])

\* write_match, the rest of a round after handle() has returned
match_arm_close(gen) == locals_pop(writeln(gen, <<"}">>))

match_end(gen, ws2) == handle_ws(writeln(gen, <<"}">>), ws2)

RECURSIVE loop_targets_from(_, _, _)
loop_targets_from(gen, targets, i) ==
    IF i > Len(targets) THEN gen
    ELSE loop_targets_from(write(locals_insert(gen, targets[i]), <<targets[i]>>), targets, i + 1)

\* write_loop up to the call of handle()
loop_begin(gen, ws1, var, iter) ==
    LET g1 == locals_push(handle_ws(gen, ws1))
        r == visit_expr_root(g1, iter)
        g2 == loop_targets_from(write(r.g, <<"for (_loop_index, ">>), visit_target(var), 1)
    IN writeln(g2, <<") in (&">> \o r.code \o <<").into_iter().enumerate() {">>)

loop_end(gen, ws2) == locals_pop(writeln(handle_ws(gen, ws2), <<"}">>))

RECURSIVE call_args_from(_, _, _, _)
call_args_from(gen, def, args, i) ==
    IF i > Len(def.args) THEN gen
    ELSE IF i > Len(args) THEN Panic(gen, "macro takes more arguments")
    ELSE LET r == visit_expr_root(gen, args[i])
             g1 == write(r.g, <<"let ", def.args[i], " = &">> \o r.code \o <<";">>)
         IN call_args_from(locals_insert(g1, def.args[i]), def, args, i + 1)

\* write_call up to the call of handle(), the macro found
call_begin(gen, ws, def, args) ==
    LET g1 == writeln(locals_push(flush_ws(gen, ws)), <<"{">>)
    IN call_args_from(prepare_ws(g1, def.ws1), def, args, 1)

call_end(gen, def, ws) ==
    prepare_ws(locals_pop(writeln(flush_ws(gen, def.ws2), <<"}">>)), ws)

\* handle_include after the child generator has walked the included nodes:
\* self.buf.push_str(&nested); a panic of the child is a panic of the whole
include_end(parent, nested, ws) ==
    LET g1 == [parent EXCEPT !.buf = @ \o nested.buf]
    IN prepare_ws(IF nested.panic # "" THEN Panic(g1, nested.panic) ELSE g1, ws)

handle_macro(gen, m) == prepare_ws(flush_ws(gen, m.ws1), m.ws2)

block_def_begin(gen, b) ==
    LET g1 == writeln(gen, <<"#[allow(unused_variables)]">>)
        g2 == writeln(g1, <<"fn render_block_", b.name,
                            "_into(&self, writer: &mut ::std::fmt::Write) -> ::askama::Result<()>", " {">>)
    IN locals_push(prepare_ws(g2, b.ws1))

block_def_end(gen, b) ==
    LET g1 == flush_ws(locals_pop(gen), b.ws2)
    IN writeln(writeln(g1, <<"Ok(())">>), <<"}">>)

render_trait_into_sig(trait_name, last) ==
    <<"fn render_trait_into(&self, timpl: &">> \o trait_name
        \o <<", writer: &mut ::std::fmt::Write) -> ::askama::Result<()>", last>>

use_deref == <<"#[allow(unused_imports)] use ::std::ops::Deref as HiddenDerefTrait;">>

render_into_sig == <<"fn render_into(&self, writer: &mut ::std::fmt::Write) -> ::askama::Result<()>", " {">>

impl_template_begin(gen) ==
    writeln(writeln(write_header(gen, <<"::askama::Template">>), render_into_sig), use_deref)

impl_template_end(gen) ==
    writeln(writeln(writeln(flush_ws(gen, NoWS), <<"Ok(())">>), <<"}">>), <<"}">>)

impl_display(gen) ==
    LET g1 == write_header(gen, <<"::std::fmt::Display">>)
        g2 == writeln(g1, <<"fn fmt(&self, f: &mut ::std::fmt::Formatter) -> ::std::fmt::Result", " {">>)
        g3 == writeln(g2, <<"self.render_into(f).map_err(|_| ::std::fmt::Error {})">>)
    IN writeln(writeln(g3, <<"}">>), <<"}">>)

deref_to_parent(gen) ==
    LET g1 == write_header(gen, <<"::std::ops::Deref">>)
        g2 == writeln(g1, <<"type Target = ", "Parent", ";">>)
        g3 == writeln(g2, <<"fn deref(&self) -> &Self::Target", " {">>)
        g4 == writeln(g3, <<"&self._parent">>)
    IN writeln(writeln(g4, <<"}">>), <<"}">>)

parent_delegation == <<"self._parent.render_trait_into(self, writer)">>

self_delegation == <<"self.render_trait_into(self, writer)">>

\* impl_trait from write_block_defs to the walk of the nodes (or to its end)
impl_trait_body(gen, st, with_nodes) ==
    LET g1 == writeln(gen, <<"#[allow(unused_variables)]">>)
        g2 == writeln(writeln(g1, render_trait_into_sig(st.trait_name, " {")), use_deref)
    IN IF with_nodes THEN [g2 EXCEPT !.impl_blocks = TRUE]
       ELSE writeln(flush_ws(writeln(writeln(g2, parent_delegation), <<"}">>), NoWS), <<"}">>)

impl_trait_end(gen) ==
    LET g1 == [flush_ws(gen, NoWS) EXCEPT !.impl_blocks = FALSE]
        g2 == writeln(writeln(g1, <<"Ok(())">>), <<"}">>)
    IN writeln(flush_ws(g2, NoWS), <<"}">>)

impl_template_for_trait(gen, st) ==
    LET g1 == writeln(write_header(gen, <<"::askama::Template">>), render_into_sig)
        g2 == writeln(g1, IF st.derived THEN parent_delegation ELSE self_delegation)
    IN writeln(writeln(g2, <<"}">>), <<"}">>)

define_trait_begin(gen, st) == writeln(gen, <<"pub trait ">> \o st.trait_name \o <<" {">>)

define_trait_end(gen, st) ==
    writeln(writeln(gen, render_trait_into_sig(st.trait_name, ";")), <<"}">>)

---------------------------------------------------------------------------
(* The walk as a state machine.  `stack` holds one frame per pending call,   *)
(* the innermost first.  A frame of a construct that pushes a scope also     *)
(* records, in `saved`, the scope chain at the moment before the push.       *)

HandleFrame(nodes, level) == [k |-> "handle", nodes |-> nodes, i |-> 1, level |-> level]

Frame(kind) == [k |-> kind]

Top == Head(stack)

Running == pc = "run" /\ stack # <<>>

AtNode(kind) ==
    /\ Running
    /\ Top.k = "handle"
    /\ Top.i <= Len(Top.nodes)
    /\ Top.nodes[Top.i].n = kind

Cur == Top.nodes[Top.i]

\* the stack with the walk of the current node sequence moved past its node
Advanced == <<[Top EXCEPT !.i = @ + 1]>> \o Tail(stack)

Step(gen, stk) ==
    /\ g' = gen
    /\ stack' = stk
    /\ err' = gen.panic
    /\ pc' = IF gen.panic # "" THEN "panic" ELSE IF stk = <<>> THEN "done" ELSE "run"
    /\ UNCHANGED <<input, state, bytes, lit>>

\* generate(): State::new(input, nodes, imported)
New ==
    /\ pc = "new"
    /\ state' = State_new(input)
    /\ err' = State_new(input).panic
    /\ pc' = IF State_new(input).panic # "" THEN "panic" ELSE "build"
    /\ UNCHANGED <<input, g, stack, bytes, lit>>

\* Generator::build up to its first call; the calls it makes are queued
Build ==
    /\ pc = "build"
    /\ IF state.blocks # <<>>
       THEN IF ~state.derived
            THEN Step(g, <<Frame("define_trait"), Frame("impl_trait"),
                           Frame("impl_template_for_trait"), Frame("impl_display")>>)
            ELSE IF ~input.has_parent
                 THEN Step(Panic(g, "expected field '_parent' in extending template struct"), <<>>)
                 ELSE Step(g, <<Frame("deref_to_parent"), Frame("impl_trait"),
                                Frame("impl_template_for_trait"), Frame("impl_display")>>)
       ELSE Step(g, <<Frame("impl_template"), Frame("impl_display")>>)

BlockDefsFrame == [k |-> "blockdefs", i |-> 1, open |-> FALSE, saved |-> g.locals]

DefineTrait ==
    /\ Running /\ Top.k = "define_trait"
    /\ Step(define_trait_begin(g, state),
            <<BlockDefsFrame, Frame("define_trait_end")>> \o Tail(stack))

DefineTraitEnd ==
    /\ Running /\ Top.k = "define_trait_end"
    /\ Step(define_trait_end(g, state), Tail(stack))

DerefToParent ==
    /\ Running /\ Top.k = "deref_to_parent"
    /\ Step(deref_to_parent(g), Tail(stack))

ImplTrait ==
    /\ Running /\ Top.k = "impl_trait"
    /\ Step(write_header(g, state.trait_name),
            <<BlockDefsFrame, Frame("impl_trait_body")>> \o Tail(stack))

ImplTraitBody ==
    /\ Running /\ Top.k = "impl_trait_body"
    /\ IF ~state.derived
       THEN Step(impl_trait_body(g, state, TRUE),
                 <<HandleFrame(input.nodes, "Top"), Frame("impl_trait_end")>> \o Tail(stack))
       ELSE Step(impl_trait_body(g, state, FALSE), Tail(stack))

ImplTraitEnd ==
    /\ Running /\ Top.k = "impl_trait_end"
    /\ Step(impl_trait_end(g), Tail(stack))

ImplTemplateForTrait ==
    /\ Running /\ Top.k = "impl_template_for_trait"
    /\ Step(impl_template_for_trait(g, state), Tail(stack))

ImplTemplate ==
    /\ Running /\ Top.k = "impl_template"
    /\ Step(impl_template_begin(g),
            <<HandleFrame(input.nodes, "Top"), Frame("impl_template_end")>> \o Tail(stack))

ImplTemplateEnd ==
    /\ Running /\ Top.k = "impl_template_end"
    /\ Step(impl_template_end(g), Tail(stack))

ImplDisplay ==
    /\ Running /\ Top.k = "impl_display"
    /\ Step(impl_display(g), Tail(stack))

\* write_block_defs: one round of its loop up to the call of handle()
WriteBlockDef ==
    /\ Running /\ Top.k = "blockdefs" /\ ~Top.open /\ Top.i <= Len(state.blocks)
    /\ Step(block_def_begin(g, state.blocks[Top.i]),
            <<HandleFrame(state.blocks[Top.i].nodes, "Block"),
              [Top EXCEPT !.open = TRUE, !.saved = g.locals]>> \o Tail(stack))

WriteBlockDefEnd ==
    /\ Running /\ Top.k = "blockdefs" /\ Top.open
    /\ Step(block_def_end(g, state.blocks[Top.i]),
            <<[Top EXCEPT !.open = FALSE, !.i = @ + 1]>> \o Tail(stack))

WriteBlockDefsReturn ==
    /\ Running /\ Top.k = "blockdefs" /\ ~Top.open /\ Top.i > Len(state.blocks)
    /\ Step(g, Tail(stack))

HandleLit ==
    /\ AtNode("Lit")
    /\ Step(write_lit(g, Cur.lws, Cur.val, Cur.rws), Advanced)

HandleComment ==
    /\ AtNode("Comment")
    /\ Step(write_comment(g, Cur.ws), Advanced)

HandleExpr ==
    /\ AtNode("Expr")
    /\ Step(write_expr(g, input.escaping, Cur.ws, Cur.expr), Advanced)

HandleLetDecl ==
    /\ AtNode("LetDecl")
    /\ Step(write_let_decl(g, Cur.ws, Cur.var), Advanced)

HandleLet ==
    /\ AtNode("Let")
    /\ Step(write_let(g, Cur.ws, Cur.var, Cur.val), Advanced)

HandleCond ==
    /\ AtNode("Cond")
    /\ Step(g, <<[k |-> "cond", conds |-> Cur.conds, ws |-> Cur.ws, i |-> 1,
                  open |-> FALSE, saved |-> g.locals]>> \o Advanced)

CondArm ==
    /\ Running /\ Top.k = "cond" /\ ~Top.open /\ Top.i <= Len(Top.conds)
    /\ Step(cond_arm(g, Top.i - 1, Top.conds[Top.i]),
            <<HandleFrame(Top.conds[Top.i][3], "Nested"),
              [Top EXCEPT !.open = TRUE, !.saved = g.locals]>> \o Tail(stack))

CondArmClose ==
    /\ Running /\ Top.k = "cond" /\ Top.open
    /\ Step(locals_pop(g), <<[Top EXCEPT !.open = FALSE, !.i = @ + 1]>> \o Tail(stack))

CondEnd ==
    /\ Running /\ Top.k = "cond" /\ ~Top.open /\ Top.i > Len(Top.conds)
    /\ Step(cond_end(g, Top.ws), Tail(stack))

HandleMatch ==
    /\ AtNode("Match")
    /\ Step(match_begin(g, Cur.ws1, Cur.expr, Cur.inter),
            <<[k |-> "match", arms |-> Cur.arms, ws2 |-> Cur.ws2, i |-> 1,
               open |-> FALSE, saved |-> g.locals]>> \o Advanced)

MatchArm ==
    /\ Running /\ Top.k = "match" /\ ~Top.open /\ Top.i <= Len(Top.arms)
    /\ Step(match_arm(g, Top.arms[Top.i]),
            <<HandleFrame(Top.arms[Top.i][4], "Nested"),
              [Top EXCEPT !.open = TRUE, !.saved = g.locals]>> \o Tail(stack))

MatchArmClose ==
    /\ Running /\ Top.k = "match" /\ Top.open
    /\ Step(match_arm_close(g), <<[Top EXCEPT !.open = FALSE, !.i = @ + 1]>> \o Tail(stack))

MatchEnd ==
    /\ Running /\ Top.k = "match" /\ ~Top.open /\ Top.i > Len(Top.arms)
    /\ Step(match_end(g, Top.ws2), Tail(stack))

HandleLoop ==
    /\ AtNode("Loop")
    /\ Step(loop_begin(g, Cur.ws1, Cur.var, Cur.iter),
            <<HandleFrame(Cur.body, "Nested"),
              [k |-> "loop", ws2 |-> Cur.ws2, open |-> TRUE, saved |-> g.locals]>>
                \o Advanced)

LoopEnd ==
    /\ Running /\ Top.k = "loop"
    /\ Step(loop_end(g, Top.ws2), Tail(stack))

HandleBlockDef ==
    /\ AtNode("BlockDef")
    /\ IF Top.level = "Nested"
       THEN Step(Panic(g, "blocks are only allowed at the top level of a template or another block"),
                 Advanced)
       ELSE Step(write_block(g, Cur.ws1, Cur.name, Cur.ws2), Advanced)

\* the calls of handle_include that have not returned
IncludeDepth == Cardinality({k \in 1..Len(stack) : stack[k].k = "include"})

\* the walk is followed through this many nested includes, and no further
MaxInclude == 33

\* handle_include up to the child's walk: the included source is read and
\* parsed, and `self` waits in the frame while the child generator emits
HandleInclude ==
    /\ AtNode("Include")
    /\ IncludeDepth < MaxInclude
    /\ IF Cur.path \notin DOMAIN input.files
       THEN Step(Panic(flush_ws(g, Cur.ws), "unable to open template file"), Advanced)
       ELSE Step(child(flush_ws(g, Cur.ws)),
                 <<HandleFrame(input.files[Cur.path], "Nested"),
                   [k |-> "include", ws |-> Cur.ws, parent |-> flush_ws(g, Cur.ws)]>> \o Advanced)

IncludeEnd ==
    /\ Running /\ Top.k = "include"
    /\ Step(include_end(Top.parent, g, Top.ws), Tail(stack))

\* the calls of write_call that have not returned
CallDepth == Cardinality({k \in 1..Len(stack) : stack[k].k = "call"})

\* the walk is followed through this many nested macro calls, and no further
MaxCall == 8

HandleCall ==
    /\ AtNode("Call")
    /\ CallDepth < MaxCall
    /\ IF <<Cur.scope, Cur.name>> \notin DOMAIN state.macros
       THEN Step(Panic(g, "macro not found"), Advanced)
       ELSE LET def == state.macros[<<Cur.scope, Cur.name>>]
            IN Step(call_begin(g, Cur.ws, def, Cur.args),
                    <<HandleFrame(def.nodes, "Nested"),
                      [k |-> "call", def |-> def, ws |-> Cur.ws, open |-> TRUE,
                       saved |-> g.locals]>> \o Advanced)

CallEnd ==
    /\ Running /\ Top.k = "call"
    /\ Step(call_end(g, Top.def, Top.ws), Tail(stack))

HandleMacro ==
    /\ AtNode("Macro")
    /\ IF Top.level = "Nested"
       THEN Step(Panic(g, "macro blocks only allowed at the top level"), Advanced)
       ELSE Step(handle_macro(g, Cur.m), Advanced)

HandleImport ==
    /\ AtNode("Import")
    /\ IF Top.level = "Nested"
       THEN Step(Panic(g, "import blocks only allowed at the top level"), Advanced)
       ELSE Step(handle_ws(g, Cur.ws), Advanced)

HandleExtends ==
    /\ AtNode("Extends")
    /\ IF Top.level = "Nested"
       THEN Step(Panic(g, "extend blocks only allowed at the top level"), Advanced)
       ELSE Step(g, Advanced)

\* the end of the `for n in nodes` loop of handle()
HandleReturn ==
    /\ Running /\ Top.k = "handle" /\ Top.i > Len(Top.nodes)
    /\ Step(g, Tail(stack))

---------------------------------------------------------------------------
(* The templates the walk is run on.  A case is what generate() is given:   *)
(* the parsed nodes, the imported macros, the host type's description, and  *)
(* the parsed nodes of the files an include can name.                       *)

MaxLen == 3

MaxChain == 2

MaxOperands == 3

MaxNest == 2

X == Var("x")

EmptyMap == [k \in {} |-> k]

\* the path of the template itself and the directory names resolve in: "a/b.1", "a/"
OwnPath == <<97, 47, 98, 46, 49>>

TemplateDirs == <<97, 47>>

Case(nodes, imported, files, escaping, has_parent) ==
    [nodes |-> nodes, imported |-> imported, files |-> files, escaping |-> escaping,
     has_parent |-> has_parent, path |-> OwnPath, dirs |-> TemplateDirs,
     overflow_checks |-> FALSE]

BaseImported == <<"s", "m0">> :> Macro(WS(FALSE, FALSE), <<>>, <<Lit("", "M", "")>>, WS(FALSE, FALSE))

BaseFiles == "inc0" :> <<Lit("", "I", "")>>

BaseCase(nodes) == Case(nodes, BaseImported, BaseFiles, "None", TRUE)

ExtendsBase == Extends(StrLit(<<98, 97>>))

\* the literals the parser can produce: an empty body has no trailing run
Lits == {Lit(l, "A", r) : l \in {"", " "}, r \in {"", "\t"}} \cup {Lit(" ", "", "")}

Body == <<Lit("  ", "B", "\n")>>

SimpleDirectives(w) ==
    {Comment(w), ExprNode(w, X), LetDecl(w, "v"), Let(w, "v", NumLit("1")),
     Include(w, "inc0"), Import(w, "lib", "s"), Call(w, <<"s">>, "m0", <<>>)}

WhenArm(w, nodes) == <<w, <<MatchVariant("Name", "Some")>>, <<MatchParameter("Name", "mp")>>, nodes>>

CompoundDirectives(w1, w2) ==
    {Cond(<<<<w1, <<X>>, Body>>>>, w2), Loop(w1, "it", Var("xs"), Body, w2),
     Match(w1, X, <<>>, <<WhenArm(w1, Body)>>, w2), BlockDef(w1, "b", Body, w2),
     MacroNode("k", Macro(w1, <<>>, Body, w2))}

Directives ==
    UNION {SimpleDirectives(w) : w \in AllWS}
        \cup UNION {CompoundDirectives(w1, w2) : w1 \in AllWS, w2 \in AllWS}
        \cup {ExtendsBase}

ExprDirectives == {ExprNode(w, X) : w \in AllWS}

\* a literal between two directives, at the top level
WsCases ==
    {BaseCase(<<d1, l, d2>>) : d1 \in Directives, l \in Lits, d2 \in ExprDirectives}
        \cup {BaseCase(<<d1, l, d2>>) : d1 \in ExprDirectives, l \in Lits, d2 \in Directives}

FilterNames == {"safe", "escape", "e", "json", "upper", "myfilter", "format", "join"}

\* x|f1|...|fk as the parser builds it: the subject is the first argument
RECURSIVE FilterChains(_)
FilterChains(k) ==
    IF k = 0 THEN {X}
    ELSE FilterChains(k - 1) \cup {Filter(f, <<e>>) : f \in FilterNames, e \in FilterChains(k - 1)}

LoopIndex == Attr(Var("loop"), "index")

LoopIndex0 == Attr(Var("loop"), "index0")

Operands == {LoopIndex, LoopIndex0, NumLit("2"), Group(BinOp("+", LoopIndex, NumLit("3")))}

Operators == {"+", "*"}

\* a op b op c ... as the parser builds it: the right operand is the rest
RECURSIVE Arith(_)
Arith(n) ==
    IF n <= 1 THEN Operands
    ELSE Arith(n - 1) \cup {BinOp(op, a, r) : op \in Operators, a \in Operands, r \in Arith(n - 1)}

OtherExprs ==
    {Filter(f, <<X, Filter(h, <<X>>)>>) : f \in FilterNames, h \in FilterNames}
        \cup {MethodCall(X, "get", <<Filter(f, <<X>>)>>) : f \in FilterNames}
        \cup {Filter(f, <<MethodCall(Var("self"), "get", <<NumLit("1")>>), X>>) : f \in FilterNames}
        \cup {Group(Filter(f, <<X>>)) : f \in FilterNames}
        \cup {NumLit("1"), StrLit("s"), Path(<<"a", "B">>), Array(<<X, Filter("safe", <<X>>)>>),
              Attr(X, "f"), Unary("!", Filter("safe", <<X>>)), BinOp("+", Filter("safe", <<X>>), X),
              Attr(Var("loop"), "last"), Var("it"), Attr(Attr(Var("loop"), "index"), "f")}

InLoop(e) == <<Loop(NoWS, "it", Var("xs"), <<ExprNode(NoWS, e)>>, NoWS)>>

ExprCases ==
    {Case(InLoop(e), EmptyMap, EmptyMap, esc, TRUE) :
        e \in FilterChains(MaxChain) \cup OtherExprs, esc \in {"Html", "None"}}
        \cup {Case(InLoop(e), EmptyMap, EmptyMap, "None", TRUE) : e \in Arith(MaxOperands)}

\* the constructs a node sequence can be nested in
Contexts == {"if", "for", "match", "call", "block", "include"}

DepthName(d) == CASE d = 1 -> "d1" [] d = 2 -> "d2" [] d = 3 -> "d3" [] OTHER -> "dn"

\* the case c with its nodes moved into a construct of the given kind
Nest(kind, c, d) ==
    CASE kind = "if" -> [c EXCEPT !.nodes = <<Cond(<<<<NoWS, <<X>>, c.nodes>>>>, NoWS)>>]
      [] kind = "for" -> [c EXCEPT !.nodes = <<Loop(NoWS, "it", Var("xs"), c.nodes, NoWS)>>]
      [] kind = "match" -> [c EXCEPT !.nodes = <<Match(NoWS, X, <<>>, <<WhenArm(NoWS, c.nodes)>>, NoWS)>>]
      [] kind = "call" -> [c EXCEPT !.nodes = <<Call(NoWS, <<"s">>, DepthName(d), <<NumLit("1")>>)>>,
                                    !.imported = (<<"s", DepthName(d)>> :> Macro(NoWS, <<"p">>, c.nodes, NoWS)) @@ @]
      [] kind = "block" -> [c EXCEPT !.nodes = <<BlockDef(NoWS, DepthName(d), c.nodes, NoWS)>>]
      [] kind = "include" -> [c EXCEPT !.nodes = <<Include(NoWS, DepthName(d))>>,
                                       !.files = (DepthName(d) :> c.nodes) @@ @]

RECURSIVE Nested(_, _)
Nested(cs, d) ==
    IF d = 0 THEN cs
    ELSE cs \cup Nested({Nest(kind, c, d) : kind \in Contexts, c \in cs}, d - 1)

NestFocus ==
    {<<ExprNode(WS(FALSE, a), X), Lit(" ", "A", "\t"), Comment(WS(b, FALSE))>> : a \in BOOLEAN, b \in BOOLEAN}
        \cup {<<Let(NoWS, "a", X), LetDecl(NoWS, "c"), ExprNode(NoWS, BinOp("+", Var("a"), Var("p")))>>,
              <<MacroNode("k", Macro(NoWS, <<>>, Body, NoWS))>>, <<Import(NoWS, "lib", "s")>>,
              <<ExtendsBase>>, <<BlockDef(NoWS, "b", Body, NoWS)>>}

NestCases == Nested({BaseCase(f) : f \in NestFocus}, MaxNest)

\* a template that extends, and the host type with or without its `_parent` field
Derive(c, has_parent) == [c EXCEPT !.nodes = <<ExtendsBase>> \o @, !.has_parent = has_parent]

DerivedCases ==
    {Derive(c, hp) : c \in Nested({BaseCase(f) : f \in NestFocus}, 1), hp \in BOOLEAN}
        \cup {BaseCase(<<ExtendsBase, Lit("", "Z", ""), ExtendsBase>> \o f) : f \in NestFocus}
        \cup {BaseCase(<<ExprNode(WS(FALSE, a), X), ExtendsBase, Lit(" ", "A", "\t"), ExprNode(WS(b, FALSE), X)>>) :
                 a \in BOOLEAN, b \in BOOLEAN}
        \cup {BaseCase(<<ExprNode(WS(FALSE, a), X), Lit(" ", "A", "\t"), ExtendsBase, ExprNode(WS(b, FALSE), X)>>) :
                 a \in BOOLEAN, b \in BOOLEAN}

\* a macro of the template itself, and the same name imported under the scope "s"
LocalMacro(name, body) == MacroNode(name, Macro(NoWS, <<>>, <<Lit("", body, "")>>, NoWS))

MacroDefs ==
    {<<>>, <<LocalMacro("m0", "L")>>, <<LocalMacro("m0", "L"), LocalMacro("m0", "L2")>>,
     <<BlockDef(NoWS, "b", <<LocalMacro("m1", "L")>>, NoWS)>>}

\* a call of a local, an imported or an unknown macro
MacroCases ==
    {Case(defs \o <<Call(NoWS, scope, name, <<>>)>>, imp, EmptyMap, "None", TRUE) :
        defs \in MacroDefs, scope \in {<<>>, <<"s">>, <<"t">>}, name \in {"m0", "m1"},
        imp \in {EmptyMap, BaseImported}}

\* templates whose include relation has a cycle: a file that includes itself,
\* and two files that include each other
CycleCases ==
    {Case(<<Include(NoWS, "inc0")>>, EmptyMap,
          "inc0" :> <<Lit("", "I", ""), Include(NoWS, "inc0")>>, "None", TRUE),
     Case(<<Lit("", "A", ""), Include(NoWS, "p")>>, EmptyMap,
          ("p" :> <<Include(NoWS, "q")>>) @@ ("q" :> <<Lit("", "Q", ""), Include(NoWS, "p")>>),
          "None", TRUE)}

MaxPath == 2

\* a  Z  e-acute  /  .  _  and the code points U+2192 and U+1F600
PathChars == {97, 90, 233, 47, 46, 95, 8594, 128512}

Paths == UNION {[1..n -> PathChars] : n \in 1..MaxPath}

\* a template at each path, and a template that extends the one of each name
PathCases ==
    {[BaseCase(<<Lit("", "A", "")>>) EXCEPT !.path = p] : p \in Paths}
        \cup {BaseCase(<<Extends(StrLit(p)), Lit("", "A", "")>>) : p \in Paths}

\* included files that read names, bind names of their own, and include
ScopeFiles ==
    ("incv" :> <<ExprNode(NoWS, Var("a")), ExprNode(NoWS, Var("q")), ExprNode(NoWS, Var("y")),
                 Let(NoWS, "z", NumLit("1")), LetDecl(NoWS, "w"), ExprNode(NoWS, Var("z")),
                 Loop(NoWS, "it", Var("a"), <<ExprNode(NoWS, Var("it"))>>, NoWS)>>)
        @@ ("incn" :> <<Let(NoWS, "y", NumLit("2")), Include(NoWS, "incv"), ExprNode(NoWS, Var("y")),
                        ExprNode(NoWS, Var("z"))>>)

\* what follows the include: reads of the names the file bound and of one of the includer
AfterInclude == <<ExprNode(NoWS, Var("z")), ExprNode(NoWS, Var("w")), ExprNode(NoWS, Var("a"))>>

\* includers that have bound no name, `a` by a let, by a loop, or `q` inside an arm
IncludeCases ==
    {Case(nodes, EmptyMap, ScopeFiles, "None", TRUE) :
        nodes \in UNION {
            {<<Include(w, f)>> \o AfterInclude,
             <<Let(NoWS, "a", NumLit("1")), Include(w, f)>> \o AfterInclude,
             <<Loop(NoWS, "a", Var("xs"), <<Include(w, f)>> \o AfterInclude, NoWS)>> \o AfterInclude,
             <<Let(NoWS, "a", NumLit("1")),
               Cond(<<<<NoWS, <<Var("a")>>, <<LetDecl(NoWS, "q"), Include(w, f)>> \o AfterInclude>>>>, NoWS)>>
                 \o AfterInclude} :
            w \in {WS(FALSE, FALSE), WS(TRUE, TRUE)}, f \in {"incv", "incn"}}}

MaxBlockDepth == 2

RECURSIVE Forest(_, _)
\* the block bodies of up to d levels: no block, one, or two, named after their place
Forest(d, p) ==
    IF d = 0 THEN {<<>>}
    ELSE {<<>>}
           \cup {<<BlockDef(NoWS, p \o "1", <<Lit("", "T", "")>> \o f, NoWS)>> :
                    f \in Forest(d - 1, p \o "1")}
           \cup {<<BlockDef(NoWS, p \o "1", f1, NoWS), Lit("", "T", ""),
                    BlockDef(NoWS, p \o "2", f2 \o <<Lit("", "U", "")>>, NoWS)>> :
                    f1 \in Forest(d - 1, p \o "1"), f2 \in Forest(d - 1, p \o "2")}

\* templates with blocks inside blocks, base templates and derived ones
BlockCases ==
    {BaseCase(f) : f \in Forest(MaxBlockDepth, "b")}
        \cup {Derive(BaseCase(f), TRUE) : f \in Forest(MaxBlockDepth, "b")}

MaxDeep == 62

RECURSIVE DeepCond(_)
\* n if chains, each inside the first arm of the one around it; the two
\* innermost have an else if and an else arm
DeepCond(n) ==
    IF n = 0 THEN <<Lit("", "A", "")>>
    ELSE IF n > 2 THEN <<Cond(<<<<NoWS, <<X>>, DeepCond(n - 1)>>>>, NoWS)>>
    ELSE <<Cond(<<<<NoWS, <<X>>, DeepCond(n - 1)>>,
                  <<NoWS, <<Var("y")>>, <<Lit("", "B", "")>>>>,
                  <<NoWS, <<>>, <<Lit("", "C", "")>>>>>>, NoWS)>>

\* shallow and deep nesting, built with and without overflow checks
DeepCases ==
    {[BaseCase(DeepCond(n)) EXCEPT !.overflow_checks = b] :
        n \in {1, 2, MaxDeep - 1, MaxDeep}, b \in BOOLEAN}

\* `A\t{% extends "ba" %} B`: a literal on either side of a directive
BetweenLits(d) ==
    {BaseCase(<<Lit("", "A", r), d, Lit(l, "B", "")>>) : r \in {"", "\t"}, l \in {"", " "}}

ExtendsLitCases ==
    UNION {BetweenLits(d) :
              d \in {ExtendsBase}
                    \cup UNION {SimpleDirectives(w) \cup CompoundDirectives(w, w) :
                                  w \in {NoWS, WS(TRUE, TRUE)}}}

\* `{% macro m2(a, b) %}{{ b }}{% endmacro %}{% call m2(u, v) %}`, with and
\* without a `{% let a = 1 %}` before the call
HygieneCases ==
    {Case(pre \o <<MacroNode("m2", Macro(NoWS, <<"a", "b">>, <<ExprNode(NoWS, Var("b"))>>, NoWS)),
                   Call(NoWS, <<>>, "m2", <<Var(u), Var(v)>>)>>,
          EmptyMap, EmptyMap, "None", TRUE) :
        pre \in {<<>>, <<Let(NoWS, "a", NumLit("1"))>>}, u \in {"a", "b", "x"}, v \in {"a", "b", "x"}}

\* `{% if x %}B\n{% else %}C\t{% endif %}` and `{% match x %} {% when Some with (mp) %}B\n
\* {% when Some with (mp) %}C\t{% endmatch %}`, the tags after the first with and without `-`
BranchCases ==
    {BaseCase(<<Cond(<<<<NoWS, <<X>>, <<Lit("", "B", "\n")>>>>,
                      <<w, c, <<Lit("", "C", "\t")>>>>>>, w2), Lit("", "Z", "")>>) :
        w \in {NoWS, WS(TRUE, FALSE)}, w2 \in {NoWS, WS(TRUE, FALSE)}, c \in {<<>>, <<Var("y")>>}}
      \cup
    {BaseCase(<<Match(NoWS, X, inter, <<WhenArm(w1, <<Lit("", "B", "\n")>>),
                                        WhenArm(w, <<Lit("", "C", "\t")>>)>>, w2),
                Lit("", "Z", "")>>) :
        inter \in {<<>>, <<" ">>}, w1 \in {NoWS, WS(TRUE, FALSE)},
        w \in {NoWS, WS(TRUE, FALSE)}, w2 \in {NoWS, WS(TRUE, FALSE)}}

\* ` A{% block b -%}B{% endblock %}` and ` A{% block b %}{{ x -}}{% endblock %}`:
\* a first literal with a leading run, and a block with a sigil inside
BlockSigilCases ==
    {BaseCase(<<Lit(" ", "A", ""), BlockDef(WS(FALSE, p), "b", body, NoWS)>>) :
        p \in BOOLEAN,
        body \in {<<Lit("", "B", "")>>, <<Lit("", "B", "\n")>>} \cup {<<ExprNode(WS(FALSE, q), X)>> : q \in BOOLEAN}}

\* x|safe|upper and x|upper(x|safe, x|e): the filter arguments are lifted
LiftedExprs ==
    {Filter("upper", <<Filter("safe", <<X>>)>>),
     Filter("upper", <<X, Filter("safe", <<X>>), Filter("e", <<X>>)>>)}

\* the places of a template an expression can stand in
ExprPlaces(e) ==
    {<<ExprNode(NoWS, e)>>,
     <<Let(NoWS, "v", e)>>,
     <<Cond(<<<<NoWS, <<e>>, Body>>>>, NoWS)>>,
     <<Cond(<<<<NoWS, <<X>>, Body>>, <<NoWS, <<e>>, Body>>>>, NoWS)>>,
     <<Cond(<<<<NoWS, <<e>>, Body>>, <<NoWS, <<e>>, Body>>, <<NoWS, <<>>, Body>>>>, NoWS)>>,
     <<Loop(NoWS, "it", e, Body, NoWS)>>,
     <<Match(NoWS, e, <<>>, <<WhenArm(NoWS, Body)>>, NoWS)>>,
     <<MacroNode("m1", Macro(NoWS, <<"p">>, Body, NoWS)), Call(NoWS, <<>>, "m1", <<e>>)>>}

LiftCases ==
    {Case(nodes, EmptyMap, EmptyMap, "None", TRUE) :
        nodes \in UNION {ExprPlaces(e) : e \in LiftedExprs}}

SelfCall(name, params, args) ==
    MacroNode(name, Macro(NoWS, params, <<Lit("", "R", ""), Call(NoWS, <<>>, name, args)>>, NoWS))

\* templates with a macro that calls itself, with and without a parameter, and
\* with two macros that call each other
RecursiveMacroCases ==
    {Case(<<SelfCall("r", <<>>, <<>>), Call(NoWS, <<>>, "r", <<>>)>>,
          EmptyMap, EmptyMap, "None", TRUE),
     Case(<<SelfCall("r", <<"p">>, <<Var("p")>>), Call(NoWS, <<>>, "r", <<X>>)>>,
          EmptyMap, EmptyMap, "None", TRUE),
     Case(<<MacroNode("r", Macro(NoWS, <<>>, <<Call(NoWS, <<>>, "q", <<>>)>>, NoWS)),
            MacroNode("q", Macro(NoWS, <<>>, <<Lit("", "Q", ""), Call(NoWS, <<>>, "r", <<>>)>>, NoWS)),
            Lit("", "A", ""), Call(NoWS, <<>>, "r", <<>>)>>,
          EmptyMap, EmptyMap, "None", TRUE)}

\* node sequences that end in a literal with a trailing run: the top level, the
\* body of a called macro, and an included file `I\n`
TrailingCases ==
    {BaseCase(<<Lit("", "A", "\t")>>)}
      \cup {Case(<<MacroNode("m1", Macro(NoWS, <<>>, Body, w2)), Call(w, <<>>, "m1", <<>>),
                   Lit("", "Z", "")>>, EmptyMap, EmptyMap, "None", TRUE) :
               w \in {NoWS, WS(TRUE, TRUE)}, w2 \in {NoWS, WS(TRUE, FALSE)}}
      \cup {Case(<<Lit("", "A", ""), Include(w, "incw"), Lit("", "Z", "")>>, EmptyMap,
                  "incw" :> <<Lit("", "I", "\n")>>, "None", TRUE) :
               w \in {NoWS, WS(TRUE, TRUE)}}

Cases ==
    WsCases \cup ExprCases \cup NestCases \cup DerivedCases \cup MacroCases \cup CycleCases
        \cup PathCases \cup IncludeCases \cup BlockCases \cup DeepCases
        \cup ExtendsLitCases \cup HygieneCases \cup BranchCases \cup BlockSigilCases
        \cup LiftCases \cup RecursiveMacroCases \cup TrailingCases

---------------------------------------------------------------------------

NoState == [panic |-> "", blocks |-> <<>>, macros |-> EmptyMap, trait_name |-> <<>>, derived |-> FALSE]

Init ==
    /\ pc = "new"
    /\ input \in Cases
    /\ state = NoState
    /\ g = [Generator_default EXCEPT !.overflow_checks = input.overflow_checks]
    /\ stack = <<>>
    /\ err = ""
    /\ bytes = <<>>
    /\ lit = <<>>

Next ==
    \/ New \/ Build
    \/ DefineTrait \/ DefineTraitEnd \/ DerefToParent
    \/ ImplTrait \/ ImplTraitBody \/ ImplTraitEnd \/ ImplTemplateForTrait
    \/ ImplTemplate \/ ImplTemplateEnd \/ ImplDisplay
    \/ WriteBlockDef \/ WriteBlockDefEnd \/ WriteBlockDefsReturn
    \/ HandleLit \/ HandleComment \/ HandleExpr \/ HandleLetDecl \/ HandleLet
    \/ HandleCond \/ CondArm \/ CondArmClose \/ CondEnd
    \/ HandleMatch \/ MatchArm \/ MatchArmClose \/ MatchEnd
    \/ HandleLoop \/ LoopEnd
    \/ HandleBlockDef
    \/ HandleInclude \/ IncludeEnd
    \/ HandleCall \/ CallEnd
    \/ HandleMacro \/ HandleImport \/ HandleExtends
    \/ HandleReturn

Spec == Init /\ [][Next]_vars

\* the templates termination is checked on: every directive, blocks in base
\* and derived templates, macro calls, and the cycles of includes and of macros
FairCases ==
    ExtendsLitCases \cup BlockCases \cup HygieneCases
        \cup CycleCases \cup RecursiveMacroCases
        \cup {c \in NestCases : c.nodes[1].n \in {"Call", "Include"}}

InitFair ==
    /\ pc = "new"
    /\ input \in FairCases
    /\ state = NoState
    /\ g = [Generator_default EXCEPT !.overflow_checks = input.overflow_checks]
    /\ stack = <<>>
    /\ err = ""
    /\ bytes = <<>>
    /\ lit = <<>>

\* generate() is sequential: a step of the walk that can be taken is taken
SpecFair == InitFair /\ [][Next]_vars /\ WF_vars(Next)

(* parser.rs: split_ws_parts on every byte string up to MaxLen bytes *)

Bytes == {32, 9, 13, 10, 97, 11}

ByteStrings == UNION {[1..n -> Bytes] : n \in 0..MaxLen}

InitSplit ==
    /\ pc = "split"
    /\ bytes \in ByteStrings
    /\ lit = <<>>
    /\ input = BaseCase(<<>>)
    /\ state = NoState
    /\ g = Generator_default
    /\ stack = <<>>
    /\ err = ""

Split ==
    /\ pc = "split"
    /\ lit' = split_ws_parts(bytes)
    /\ pc' = "split_done"
    /\ UNCHANGED <<input, state, g, stack, err, bytes>>

SpecSplit == InitSplit /\ [][Split]_vars

(* parser.rs: parse on template sources assembled from bounded pieces *)

MaxArms == 2

\* the operator tokens of the nine binary layers
BinaryOps == UNION {{LayerOps[l][k] : k \in 1..Len(LayerOps[l])} : l \in 1..Len(LayerOps)}

\* an operand as written and the Expr it stands for
Operand(src, ast) == [src |-> src, ast |-> ast]

OperandTriples ==
    {<<Operand(Bs(<<"a">>), Var(Bs(<<"a">>))), Operand(Bs(<<"b">>), Var(Bs(<<"b">>))), Operand(Bs(<<"c">>), Var(Bs(<<"c">>)))>>,
     <<Operand(Bs(<<"(", "a", "+", "b", ")">>), Group(BinOp(Bs(<<"+">>), Var(Bs(<<"a">>)), Var(Bs(<<"b">>))))),
       Operand(Bs(<<"1">>), NumLit(Bs(<<"1">>))),
       Operand(Bs(<<"x", ".", "y">>), Attr(Var(Bs(<<"x">>)), Bs(<<"y">>)))>>,
     <<Operand(Bs(<<"a", "|", "f">>), Filter(Bs(<<"f">>), <<Var(Bs(<<"a">>))>>)),
       Operand(Bs(<<"!", "b">>), Unary(Bs(<<"!">>), Var(Bs(<<"b">>)))),
       Operand(Bs(<<"\"", "s", "\"">>), StrLit(Bs(<<"s">>)))>>}

BinaryCases ==
    {[kind |-> "expr", opds |-> t, op1 |-> o1, op2 |-> o2] :
        t \in OperandTriples, o1 \in BinaryOps, o2 \in BinaryOps}

ArmLists == UNION {[1..n -> {"else", "else if"}] : n \in 0..MaxArms}

CondCases == {[kind |-> "cond", arms |-> a, inner |-> b] : a \in ArmLists, b \in BOOLEAN}

StatementForms == {"call", "let", "if", "for", "match", "extends", "include", "import", "block", "macro"}

\* one tag per keyword: the word after the opening frame, and the tag
Tags ==
    {[keyword |-> "let", src |-> Bs(<<"{", "%", " ", "l", "e", "t", " ", "x", " ", "=", " ", "1", " ", "%", "}">>)],
     [keyword |-> "include", src |-> Bs(<<"{", "%", " ", "i", "n", "c", "l", "u", "d", "e", " ", "\"", "f", "\"", " ", "%", "}">>)],
     [keyword |-> "extends", src |-> Bs(<<"{", "%", " ", "e", "x", "t", "e", "n", "d", "s", " ", "\"", "b", "\"", " ", "%", "}">>)],
     [keyword |-> "call", src |-> Bs(<<"{", "%", " ", "c", "a", "l", "l", " ", "m", "(", ")", " ", "%", "}">>)],
     [keyword |-> "if", src |-> Bs(<<"{", "%", " ", "i", "f", " ", "a", " ", "%", "}", "{", "%", " ", "e", "n", "d", "i", "f", " ", "%", "}">>)],
     [keyword |-> "for", src |-> Bs(<<"{", "%", " ", "f", "o", "r", " ", "x", " ", "i", "n", " ", "x", "s", " ", "%", "}", "{", "%", " ", "e", "n", "d", "f", "o", "r", " ", "%", "}">>)],
     [keyword |-> "block", src |-> Bs(<<"{", "%", " ", "b", "l", "o", "c", "k", " ", "b", " ", "%", "}", "{", "%", " ", "e", "n", "d", "b", "l", "o", "c", "k", " ", "%", "}">>)],
     [keyword |-> "macro", src |-> Bs(<<"{", "%", " ", "m", "a", "c", "r", "o", " ", "m", "(", ")", " ", "%", "}", "{", "%", " ", "e", "n", "d", "m", "a", "c", "r", "o", " ", "%", "}">>)],
     [keyword |-> "import", src |-> Bs(<<"{", "%", " ", "i", "m", "p", "o", "r", "t", " ", "\"", "f", "\"", " ", "a", "s", " ", "s", " ", "%", "}">>)],
     [keyword |-> "match", src |-> Bs(<<"{", "%", " ", "m", "a", "t", "c", "h", " ", "x", " ", "%", "}", "{", "%", " ", "w", "h", "e", "n", " ", "A", " ", "%", "}", "{", "%", " ", "e", "n", "d", "m", "a", "t", "c", "h", " ", "%", "}">>)],
     [keyword |-> "extend", src |-> Bs(<<"{", "%", " ", "e", "x", "t", "e", "n", "d", " ", "\"", "b", "l", "a", "h", "\"", " ", "%", "}">>)],
     [keyword |-> "set", src |-> Bs(<<"{", "%", " ", "s", "e", "t", " ", "x", " ", "=", " ", "1", " ", "%", "}">>)],
     [keyword |-> "lettuce", src |-> Bs(<<"{", "%", " ", "l", "e", "t", "t", "u", "c", "e", " ", "%", "}">>)],
     [keyword |-> "callm", src |-> Bs(<<"{", "%", " ", "c", "a", "l", "l", "m", "(", ")", " ", "%", "}">>)],
     [keyword |-> "endif", src |-> Bs(<<"{", "%", " ", "e", "n", "d", "i", "f", " ", "%", "}">>)],
     [keyword |-> "elif", src |-> Bs(<<"{", "%", " ", "e", "l", "i", "f", " ", "a", " ", "%", "}">>)]}

TagCases ==
    {[kind |-> "tag", keyword |-> t.keyword, src |-> p \o t.src \o q] :
        t \in Tags, p \in {<<>>, Bs(<<"x", " ">>)}, q \in {<<>>, Bs(<<" ", "y">>)}}

TextCases ==
    {[kind |-> "text", src |-> s] :
        s \in {<<>>,
                Bs(<<"h", "e", "l", "l", "o">>),
                Bs(<<"{", "{", " ", "a">>),
                Bs(<<"{", "%", " ", "i", "f", " ", "a", " ", "%", "}", "A">>),
                Bs(<<"a", " ", "}", "}">>),
                Bs(<<"{", "{", " ", "a", " ", "}", "}", "{", "%", " ", "e", "n", "d", "i", "f", " ", "%", "}">>),
                Bs(<<"{", "#">>),
                Bs(<<"{", "{", " ", "}", "}">>),
                Bs(<<"{", "{", " ", "a", " ", "}", "}", " ", "b">>),
                Bs(<<"{", "#", " ", "c", " ", "#", "}", "{", "{", " ", "a", " ", "}", "}">>)}}

ParseCases == BinaryCases \cup CondCases \cup TagCases \cup TextCases

RECURSIVE ArmsSource(_, _)
ArmsSource(arms, i) ==
    IF i > Len(arms) THEN <<>>
    ELSE (IF arms[i] = "else" THEN Bs(<<"{", "%", " ", "e", "l", "s", "e", " ", "%", "}", "B">>)
          ELSE Bs(<<"{", "%", " ", "e", "l", "s", "e", " ", "i", "f", " ", "c", " ", "%", "}", "C">>)) \o ArmsSource(arms, i + 1)

\* the template text of a case
SourceOf(c) ==
    CASE c.kind = "expr" ->
            Bs(<<"{", "{", " ">>) \o c.opds[1].src \o <<32>> \o c.op1 \o <<32>> \o c.opds[2].src
                \o <<32>> \o c.op2 \o <<32>> \o c.opds[3].src \o Bs(<<" ", "}", "}">>)
      [] c.kind = "cond" ->
            Bs(<<"{", "%", " ", "i", "f", " ", "a", " ", "%", "}">>)
                \o (IF c.inner
                    THEN Bs(<<"{", "%", " ", "i", "f", " ", "b", " ", "%", "}", "A",
                              "{", "%", " ", "e", "n", "d", "i", "f", " ", "%", "}">>)
                    ELSE Bs(<<"A">>))
                \o ArmsSource(c.arms, 1) \o Bs(<<"{", "%", " ", "e", "n", "d", "i", "f", " ", "%", "}">>)
      [] OTHER -> c.src

InitParse ==
    /\ pc = "parse"
    /\ input \in ParseCases
    /\ bytes = SourceOf(input)
    /\ lit = <<>>
    /\ state = NoState
    /\ g = Generator_default
    /\ stack = <<>>
    /\ err = ""

Parse ==
    /\ pc = "parse"
    /\ lit' = parse(bytes)
    /\ pc' = "parse_done"
    /\ UNCHANGED <<input, state, g, stack, err, bytes>>

SpecParse == InitParse /\ [][Parse]_vars

---------------------------------------------------------------------------
(* Reading the walk and the emitted text *)

\* the walk has just handled a node of one of the kinds, and goes on
Passed(kinds) ==
    /\ pc = "run"
    /\ Top.k = "handle"
    /\ Top.i > 1
    /\ Top.nodes[Top.i - 1].n \in kinds

PassedNode == Top.nodes[Top.i - 1]

\* every node of the node sequence being walked has been handled
SeqDone == pc = "run" /\ Top.k = "handle" /\ Top.i > Len(Top.nodes)

\* the `-` at the start of the tag that opens the directive d, as the parser records it
pre_sigil(d) ==
    CASE d.n \in {"Comment", "Expr", "LetDecl", "Let", "Include", "Import", "Call"} -> d.ws[1]
      [] d.n = "Cond" -> d.conds[1][1][1]
      [] d.n \in {"Match", "Loop", "BlockDef"} -> d.ws1[1]
      [] d.n = "Macro" -> d.m.ws1[1]
      [] d.n = "Extends" -> FALSE

\* the `-` at the end of the tag that closes the directive d
post_sigil(d) ==
    CASE d.n \in {"Comment", "Expr", "LetDecl", "Let", "Include", "Import", "Call"} -> d.ws[2]
      [] d.n = "Cond" -> d.ws[2]
      [] d.n \in {"Match", "Loop", "BlockDef"} -> d.ws2[2]
      [] d.n = "Macro" -> d.m.ws2[2]
      [] d.n = "Extends" -> FALSE

\* buf holds a statement that writes the string s
Written(buf, s) ==
    \E k \in 1..(Len(buf) - 2) : buf[k] = "writer.write_str(" /\ buf[k + 2] = escape_debug(s)

\* what the claim C1 says of the literal at place i of the node sequence nodes;
\* a trailing run still pending in next_ws is neither written nor dropped yet
Suppression(nodes, i, gen) ==
    /\ nodes[i].lws # "" => (Written(gen.buf, nodes[i].lws) <=> ~post_sigil(nodes[i - 1]))
    /\ Written(gen.buf, nodes[i].val)
    /\ (nodes[i].rws # "" /\ gen.next_ws # <<nodes[i].rws>>)
          => (Written(gen.buf, nodes[i].rws) <=> ~pre_sigil(nodes[i + 1]))

\* the places of a node sequence that hold a literal with a body between two directives
BetweenDirectives(nodes) ==
    {i \in 2..(Len(nodes) - 1) :
        nodes[i].n = "Lit" /\ nodes[i].val # "" /\ nodes[i - 1].n # "Lit" /\ nodes[i + 1].n # "Lit"}

(* C1. Whitespace suppression: once the generator has walked a node sequence, *)
(* for every literal with a non-empty body between two directives of it, the   *)
(* leading run has been written iff the preceding directive's post sigil is    *)
(* unset, the trailing run iff the following directive's pre sigil is unset,   *)
(* and the body has been written.  `extends` is a directive; it has no sigils. *)
C1_WhitespaceSuppression ==
    SeqDone => \A i \in BetweenDirectives(Top.nodes) : Suppression(Top.nodes, i, g)

(* C1 away from `extends`: the same, for the literals neither neighbour of     *)
(* which is an `extends` directive.                                            *)
C1_AwayFromExtends ==
    SeqDone =>
        \A i \in BetweenDirectives(Top.nodes) :
            (Top.nodes[i - 1].n # "Extends" /\ Top.nodes[i + 1].n # "Extends")
                => Suppression(Top.nodes, i, g)

C1_AwayFromExtends_Witness ==
    /\ SeqDone
    /\ \E i \in BetweenDirectives(Top.nodes) :
          /\ post_sigil(Top.nodes[i - 1]) /\ pre_sigil(Top.nodes[i + 1])
          /\ Top.nodes[i].lws # "" /\ Top.nodes[i].rws # ""
          /\ ~Written(g.buf, Top.nodes[i].lws) /\ ~Written(g.buf, Top.nodes[i].rws)
          /\ Written(g.buf, Top.nodes[i].val)

---------------------------------------------------------------------------

WsBytes == {32, 9, 13, 10}

OnlyWs(s) == \A i \in 1..Len(s) : s[i] \in WsBytes

(* C2. split_ws_parts: for every byte string s the result (lws, body, rws)    *)
(* satisfies lws + body + rws = s, lws and rws hold only space, tab, CR, LF,   *)
(* body is empty or begins and ends with a byte that is none of these, and an  *)
(* all-whitespace s (the empty s too) yields (s, "", "").                      *)
C2_SplitWsParts ==
    pc = "split_done" =>
        /\ lit.lws \o lit.val \o lit.rws = bytes
        /\ OnlyWs(lit.lws) /\ OnlyWs(lit.rws)
        /\ lit.val = <<>> \/ (lit.val[1] \notin WsBytes /\ lit.val[Len(lit.val)] \notin WsBytes)
        /\ OnlyWs(bytes) => (lit.lws = bytes /\ lit.val = <<>> /\ lit.rws = <<>>)

C2_Witness ==
    /\ pc = "split_done"
    /\ lit.lws # <<>> /\ lit.val # <<>> /\ lit.rws # <<>>
    /\ lit.lws \o lit.val \o lit.rws = bytes

---------------------------------------------------------------------------

ScopeKinds == {"cond", "match", "loop", "call", "blockdefs"}

\* the next step of the walk ends a construct that pushed a scope
ClosesScope == pc = "run" /\ Top.k \in ScopeKinds /\ Top.open

(* C3. Scope hygiene: the step that ends a for loop, a match arm, a macro     *)
(* call, an if/else arm or a block body leaves the scope stack with the depth  *)
(* and the contents it had immediately before the construct began.            *)
C3_ScopeHygiene == [][ClosesScope => (pc' # "panic" /\ g'.locals = Top.saved)]_vars

\* a loop has just been emitted, and neither its target nor a `let` of its body
\* is in scope any more
C3_Witness ==
    /\ Passed({"Loop"})
    /\ ~contains(g.locals, PassedNode.var)
    /\ \E i \in 1..Len(PassedNode.body) :
          PassedNode.body[i].n = "Let" /\ ~contains(g.locals, PassedNode.body[i].var)

---------------------------------------------------------------------------

NotIndent(t) == t # "    "

\* the statements of the emitted `render_into`, its lines separated by "\n"
RenderIntoBody(buf) ==
    LET sig == "fn render_into(&self, writer: &mut ::std::fmt::Write) -> ::askama::Result<()>"
        i == CHOOSE k \in 1..Len(buf) : buf[k] = sig
        IsEnd(k) == buf[k] = "\n" /\ buf[k + 1] = "    " /\ buf[k + 2] = "}"
        j == CHOOSE k \in i..(Len(buf) - 2) : IsEnd(k) /\ \A m \in i..(k - 1) : ~IsEnd(m)
    IN SelectSeq(SubSeq(buf, i + 3, j - 1), NotIndent)

HasTop(kind) == \E i \in 1..Len(input.nodes) : input.nodes[i].n = kind

(* C4. Derived dispatch: the `render_into` emitted for a template with an      *)
(* `extends` directive is the delegation                                       *)
(* `self._parent.render_trait_into(self, writer)` and nothing else; for a      *)
(* template without `extends` that has blocks it is                            *)
(* `self.render_trait_into(self, writer)`.                                     *)
C4_DerivedDispatch ==
    pc = "done" =>
        /\ HasTop("Extends") =>
              RenderIntoBody(g.buf) = <<"self._parent.render_trait_into(self, writer)">>
        /\ (~HasTop("Extends") /\ HasTop("BlockDef")) =>
              RenderIntoBody(g.buf) = <<"self.render_trait_into(self, writer)">>

(* C4 for the templates that define a block.                                   *)
C4_WithBlocks == (pc = "done" /\ HasTop("BlockDef")) => C4_DerivedDispatch

C4_WithBlocks_Witness ==
    /\ pc = "done" /\ HasTop("BlockDef") /\ HasTop("Extends")
    /\ RenderIntoBody(g.buf) = <<"self._parent.render_trait_into(self, writer)">>

---------------------------------------------------------------------------

SafeOutermost(e) == e.e = "Filter" /\ e.name \in {"safe", "escape", "e", "json"}

\* the argument of the format_args! of the statement emitted last
WriteArgument(buf) ==
    IF Len(buf) >= 4 /\ buf[Len(buf) - 3] = "writer.write_fmt(format_args!(\"{}\", "
    THEN buf[Len(buf) - 2] ELSE "none"

(* C5. Auto-escape: the write emitted for an expression node {{ e }} wraps    *)
(* the value in MarkupDisplay iff the escaping mode is Html and the outermost  *)
(* operation of e is not one of the filters safe, escape, e, json; otherwise   *)
(* (and always with the mode None) the value is written as it is.              *)
C5_AutoEscape ==
    Passed({"Expr"}) =>
        IF input.escaping = "Html" /\ ~SafeOutermost(PassedNode.expr)
        THEN WriteArgument(g.buf) = "&::askama::MarkupDisplay::from(askama_expr)"
        ELSE WriteArgument(g.buf) = "askama_expr"

C5_Witness ==
    /\ Passed({"Expr"})
    /\ input.escaping = "Html"
    /\ PassedNode.expr.e = "Filter" /\ PassedNode.expr.name = "json"
    /\ WriteArgument(g.buf) = "askama_expr"

---------------------------------------------------------------------------

(* C6. A macro, import or extends directive that the walk meets anywhere but  *)
(* in the template's top-level node sequence (in an if/for/match/macro body,   *)
(* an included template, or directly in a block body) aborts generation: the   *)
(* walk never gets past one.                                                   *)
C6_OnlyAtTopLevel == Passed({"Macro", "Import", "Extends"}) => Top.level = "Top"

(* C6 without the block bodies: the walk never gets past a macro, import or    *)
(* extends directive inside an if/for/match/macro body or an included file.    *)
C6_NestedAborts == Passed({"Macro", "Import", "Extends"}) => Top.level # "Nested"

C6_NestedAborts_Witness ==
    /\ pc = "panic"
    /\ err \in {"macro blocks only allowed at the top level",
                "import blocks only allowed at the top level",
                "extend blocks only allowed at the top level"}
    /\ Top.k = "handle" /\ Top.level = "Nested"

---------------------------------------------------------------------------

\* the number of calls `<ctx>.render_block_<name>_into(writer)?;` in the text
BlockCalls(text, ctx, name) ==
    Cardinality({k \in 1..(Len(text) - 3) :
        /\ text[k] = ctx /\ text[k + 1] = ".render_block_"
        /\ text[k + 2] = name /\ text[k + 3] = "_into(writer)?;"})

\* the walk is inside impl_trait's walk of the template body: the text goes
\* into `render_trait_into`
InRenderTraitInto == \E k \in 1..Len(stack) : stack[k].k = "impl_trait_end"

\* what a step has added to the buffer
Emitted == SubSeq(g'.buf, Len(g.buf) + 1, Len(g'.buf))

(* C7. The step that handles a block definition aborts when the definition is *)
(* inside an if-arm, a for body, a match arm, a macro body or an included      *)
(* template; at the top level or directly in another block's body it emits     *)
(* exactly one call `<ctx>.render_block_<name>_into(writer)?`, as the last     *)
(* statement so far, with ctx `timpl` inside render_trait_into, else `self`.   *)
C7_BlockCall ==
    [][AtNode("BlockDef") =>
        IF Top.level = "Nested" THEN pc' = "panic"
        ELSE LET ctx == IF InRenderTraitInto THEN "timpl" ELSE "self"
                 other == IF InRenderTraitInto THEN "self" ELSE "timpl"
             IN /\ pc' # "panic"
                /\ BlockCalls(Emitted, ctx, Cur.name) = 1
                /\ \A name \in {Cur.name, "b", "d1", "d2", "d3"} :
                      /\ BlockCalls(Emitted, other, name) = 0
                      /\ name # Cur.name => BlockCalls(Emitted, ctx, name) = 0
                /\ SubSeq(Emitted, Len(Emitted) - 4, Len(Emitted))
                      = <<ctx, ".render_block_", Cur.name, "_into(writer)?;", "\n">>]_vars

\* a block call has just been emitted into render_trait_into
C7_Witness ==
    /\ Passed({"BlockDef"})
    /\ InRenderTraitInto
    /\ SubSeq(g.buf, Len(g.buf) - 4, Len(g.buf))
          = <<"timpl", ".render_block_", PassedNode.name, "_into(writer)?;", "\n">>

---------------------------------------------------------------------------

\* the number of `extends` directives of the template
TopExtends == Cardinality({i \in 1..Len(input.nodes) : input.nodes[i].n = "Extends"})

(* C8. Single-extends: a template with two (or more) `extends` directives     *)
(* fails with 'multiple extend blocks found' before any code is produced; a    *)
(* template with none or one never raises this error.                          *)
C8_SingleExtends ==
    /\ (TopExtends >= 2 /\ pc # "new")
          => (pc = "panic" /\ err = "multiple extend blocks found" /\ g.buf = <<>>)
    /\ TopExtends <= 1 => err # "multiple extend blocks found"

C8_Witness ==
    /\ TopExtends = 2
    /\ pc = "panic" /\ err = "multiple extend blocks found" /\ g.buf = <<>>

---------------------------------------------------------------------------

IsCall(e) == e.e \in {"Filter", "MethodCall"}

\* the expressions directly under e
SubExprs(e) ==
    CASE e.e = "Filter" -> e.args
      [] e.e = "MethodCall" -> <<e.obj>> \o e.args
      [] e.e = "Array" -> e.elements
      [] e.e = "Attr" -> <<e.obj>>
      [] e.e = "Unary" -> <<e.inner>>
      [] e.e = "BinOp" -> <<e.left, e.right>>
      [] e.e = "Group" -> <<e.inner>>
      [] OTHER -> <<>>

\* the lifting named by the claim C9 applies to the arguments of e
Lifts(e, inline) == IsCall(e) /\ ~(e.e = "Filter" /\ e.name \in inline)

RECURSIVE InlineCalls(_, _)
RECURSIVE SumInline(_, _, _)
SumInline(es, lifting, inline) ==
    IF es = <<>> THEN 0
    ELSE (IF lifting /\ IsCall(Head(es)) THEN 0 ELSE InlineCalls(Head(es), inline))
             + SumInline(Tail(es), lifting, inline)

\* the filter applications and method calls of e whose text stays in the
\* statement of e when every lifted argument is replaced by its temporary
InlineCalls(e, inline) ==
    (IF IsCall(e) THEN 1 ELSE 0)
        + (IF IsCall(e)
           THEN SumInline(IF e.e = "MethodCall" THEN <<e.obj>> ELSE <<>>, FALSE, inline)
                    + SumInline(e.args, Lifts(e, inline), inline)
           ELSE SumInline(SubExprs(e), FALSE, inline))

RECURSIVE NumLifts(_, _)
RECURSIVE SumLifts(_, _)
SumLifts(es, inline) == IF es = <<>> THEN 0 ELSE NumLifts(Head(es), inline) + SumLifts(Tail(es), inline)

\* the arguments in e that are themselves a filter application or a method
\* call, not counting the arguments of the filters named in `inline`
NumLifts(e, inline) ==
    (IF Lifts(e, inline)
     THEN Cardinality({i \in 1..Len(e.args) : IsCall(e.args[i])}) ELSE 0)
        + SumLifts(SubExprs(e), inline)

\* the code of the `let askama_expr = &...;` emitted last
StatementCode(buf) ==
    LET k == CHOOSE i \in 1..Len(buf) :
                 buf[i] = "let askama_expr = &" /\ \A j \in (i + 1)..Len(buf) : buf[j] # buf[i]
        e == CHOOSE i \in k..Len(buf) : buf[i] = ";" /\ \A j \in k..(i - 1) : buf[j] # ";"
    IN SubSeq(buf, k + 1, e - 1)

\* the places of the text where the text of a filter application or a method call begins
CallPlaces(text) ==
    {k \in 1..Len(text) :
        \/ text[k] \in {"::askama::filters::", "filters::", "format!(", "::askama::filters::join((&"}
        \/ (text[k] = "(" /\ k > 2 /\ text[k - 2] = ".")}

\* the template is {% for it in xs %}{{ e }}{% endfor %} and {{ e }} has just been emitted
ExprEmitted ==
    /\ Passed({"Expr"})
    /\ Len(input.nodes) = 1 /\ input.nodes[1].n = "Loop"
    /\ Top.nodes = input.nodes[1].body /\ Len(Top.nodes) = 1

\* `lifts` temporaries are bound, each on a line before its one use, and the
\* final statement holds the text of the calls of e that are not lifted
Lifted(buf, e, inline) ==
    LET lifts == NumLifts(e, inline) IN
    /\ Cardinality({k \in 1..(Len(buf) - 1) : buf[k] = "let " /\ buf[k + 1] = "var"}) = lifts
    /\ Cardinality({k \in 1..Len(buf) : buf[k] = "var"}) = 2 * lifts
    /\ \A k \in 2..(Len(buf) - 1) :
          (buf[k] = "var" /\ buf[k - 1] # "let ") =>
              \E j \in 1..(k - 2) :
                  /\ buf[j] = "let " /\ buf[j + 1] = "var" /\ buf[j + 2] = buf[k + 1]
                  /\ \E n \in j..k : buf[n] = "\n"
    /\ Cardinality(CallPlaces(StatementCode(buf))) = InlineCalls(e, inline)

---------------------------------------------------------------------------

MaxIndex == 2

NotSpace(t) == t # " "

\* the value of an operand of an arithmetic text, at iteration idx (from 0)
AtomVal(t, idx) ==
    CASE t = "_loop_index" -> idx
      [] t = "loop.index0" -> idx
      [] t = "loop.index" -> idx + 1
      [] t = "1" -> 1
      [] t = "2" -> 2
      [] t = "3" -> 3

RECURSIVE EvalSum(_, _)
RECURSIVE EvalProd(_, _)
RECURSIVE SumRest(_, _, _)
RECURSIVE ProdRest(_, _, _)

\* Rust's reading of operands, `*`, `+` and parentheses: [v |-> value, rest |-> the text left]
EvalAtom(toks, idx) ==
    IF Head(toks) = "("
    THEN LET r == EvalSum(Tail(toks), idx) IN [v |-> r.v, rest |-> Tail(r.rest)]
    ELSE [v |-> AtomVal(Head(toks), idx), rest |-> Tail(toks)]

ProdRest(v, toks, idx) ==
    IF toks # <<>> /\ Head(toks) = "*"
    THEN LET r == EvalAtom(Tail(toks), idx) IN ProdRest(v * r.v, r.rest, idx)
    ELSE [v |-> v, rest |-> toks]

EvalProd(toks, idx) == LET r == EvalAtom(toks, idx) IN ProdRest(r.v, r.rest, idx)

SumRest(v, toks, idx) ==
    IF toks # <<>> /\ Head(toks) = "+"
    THEN LET r == EvalProd(Tail(toks), idx) IN SumRest(v + r.v, r.rest, idx)
    ELSE [v |-> v, rest |-> toks]

EvalSum(toks, idx) == LET r == EvalProd(toks, idx) IN SumRest(r.v, r.rest, idx)

Eval(toks, idx) == EvalSum(SelectSeq(toks, NotSpace), idx).v

IsLoopAttr(e) == e.e = "Attr" /\ e.obj = Var("loop")

\* e is made of loop.index, loop.index0, numbers, `+`, `*` and parentheses
RECURSIVE IsArith(_)
IsArith(e) ==
    CASE e.e = "NumLit" -> TRUE
      [] e.e = "Attr" -> IsLoopAttr(e) /\ e.name \in {"index", "index0"}
      [] e.e = "BinOp" -> e.op \in {"+", "*"} /\ IsArith(e.left) /\ IsArith(e.right)
      [] e.e = "Group" -> IsArith(e.inner)
      [] OTHER -> FALSE

\* the expression as the template has it
RECURSIVE SourceText(_)
SourceText(e) ==
    CASE e.e = "NumLit" -> <<e.s>>
      [] e.e = "Attr" -> <<IF e.name = "index" THEN "loop.index" ELSE "loop.index0">>
      [] e.e = "BinOp" -> SourceText(e.left) \o <<e.op>> \o SourceText(e.right)
      [] e.e = "Group" -> <<"(">> \o SourceText(e.inner) \o <<")">>

RECURSIVE UnknownLoopAttr(_)
RECURSIVE AnyUnknownLoopAttr(_)
AnyUnknownLoopAttr(es) == es # <<>> /\ (UnknownLoopAttr(Head(es)) \/ AnyUnknownLoopAttr(Tail(es)))

\* e mentions a loop.X other than loop.index and loop.index0
UnknownLoopAttr(e) ==
    \/ (IsLoopAttr(e) /\ e.name \notin {"index", "index0"})
    \/ AnyUnknownLoopAttr(SubExprs(e))

(* C10. Loop attributes: the code emitted for an expression denotes what the  *)
(* expression denotes when loop.index0 is the zero-based iteration index and   *)
(* loop.index that index plus one, whatever operators surround them; and an    *)
(* expression that mentions any other loop.X is never emitted.                 *)
C10_LoopAttributes ==
    Passed({"Expr"}) =>
        /\ ~UnknownLoopAttr(PassedNode.expr)
        /\ IsArith(PassedNode.expr) =>
              \A idx \in 0..MaxIndex :
                  Eval(StatementCode(g.buf), idx) = Eval(SourceText(PassedNode.expr), idx)

(* C10 for an attribute that is the whole expression or stands in parentheses  *)
(* or under `+` only.                                                          *)
C10_WithoutProduct ==
    Passed({"Expr"}) =>
        /\ ~UnknownLoopAttr(PassedNode.expr)
        /\ (IsArith(PassedNode.expr) /\ \A k \in DOMAIN SourceText(PassedNode.expr) :
                                           SourceText(PassedNode.expr)[k] # "*") =>
              \A idx \in 0..MaxIndex :
                  Eval(StatementCode(g.buf), idx) = Eval(SourceText(PassedNode.expr), idx)

C10_WithoutProduct_Witness ==
    /\ Passed({"Expr"})
    /\ PassedNode.expr = BinOp("+", LoopIndex, LoopIndex0)
    /\ Eval(StatementCode(g.buf), 1) = 3

---------------------------------------------------------------------------

\* the keys the macro map is to hold: (None, name) for each macro defined at
\* the top level of the template, (Some(scope), name) for each imported macro
MacroKeys ==
    {<<<<>>, input.nodes[i].name>> : i \in {j \in 1..Len(input.nodes) : input.nodes[j].n = "Macro"}}
        \cup {<<<<k[1]>>, k[2]>> : k \in DOMAIN input.imported}

\* def is a macro the key may stand for
MacroOf(key, def) ==
    IF key[1] = <<>>
    THEN \E i \in 1..Len(input.nodes) :
            input.nodes[i].n = "Macro" /\ input.nodes[i].name = key[2] /\ input.nodes[i].m = def
    ELSE def = input.imported[<<key[1][1], key[2]>>]

MacroMapExact ==
    (pc # "new" /\ err # "multiple extend blocks found")
        => /\ DOMAIN state.macros = MacroKeys
           /\ \A key \in MacroKeys : MacroOf(key, state.macros[key])

CallLookup ==
    AtNode("Call") =>
        LET key == <<Cur.scope, Cur.name>>
        IN IF key \notin MacroKeys
           THEN pc' = "panic" /\ err' = "macro not found"
           ELSE /\ err' # "macro not found"
                /\ pc' = "run" => (stack'[2].k = "call" /\ MacroOf(key, stack'[2].def))

(* C11. A call whose (scope, name) key is not in the macro map aborts with     *)
(* 'macro not found'; the map holds exactly the macros defined at the top      *)
(* level of the template under (None, name) and the imported macros under      *)
(* (Some(scope), name), and a call of a key it holds expands that macro: a     *)
(* local and an imported macro of one name do not shadow each other.           *)
C11_MacroLookup == []MacroMapExact /\ [][CallLookup]_vars

\* a local m0 and an imported s::m0 exist, and the imported one is being expanded
C11_Witness ==
    /\ Running /\ Len(stack) >= 2
    /\ stack[2].k = "call"
    /\ {<<<<>>, "m0">>, <<<<"s">>, "m0">>} \subseteq DOMAIN state.macros
    /\ state.macros[<<<<>>, "m0">>] # state.macros[<<<<"s">>, "m0">>]
    /\ stack[2].def = input.imported[<<"s", "m0">>]

---------------------------------------------------------------------------

\* the depth of nested includes a generator that treats include cycles as
\* fatal may reach before it aborts
DepthLimit == MaxInclude - 1

(* C12. Include cycles are fatal: generation does not follow the includes of   *)
(* a template deeper than the depth limit; when the include relation has a     *)
(* cycle it aborts instead.                                                    *)
C12_IncludeCyclesFatal == IncludeDepth <= DepthLimit

(* C12, what the generator does on a cycle: it goes on including, and neither  *)
(* finishes nor aborts.                                                        *)
C12_CycleGoesOn == input \in CycleCases => pc \notin {"done", "panic"}

C12_CycleGoesOn_Witness == input \in CycleCases /\ IncludeDepth = MaxInclude /\ pc = "run"

---------------------------------------------------------------------------
(* Parsing *)

Parsed == pc = "parse_done" /\ lit.panic = ""

\* the expression `a op1 b op2 c` of a case, nested to the right
RightNested(c) ==
    BinOp(c.op1, c.opds[1].ast, BinOp(c.op2, c.opds[2].ast, c.opds[3].ast))

(* C13. Binary operators parse right-recursively: whatever the two operators   *)
(* are, `a op1 b op2 c` parses to BinOp(op1, a, BinOp(op2, b, c)); the         *)
(* precedence layers do not regroup it, so `a - b - c` is `a - (b - c)`.      *)
C13_RightRecursive ==
    (pc = "parse_done" /\ input.kind = "expr")
        => lit = [panic |-> "", nodes |-> <<ExprNode(NoWS, RightNested(input))>>]

\* `(a+b) * 1 + x.y` has been parsed, and the sum is the right operand of the product
C13_Witness ==
    /\ Parsed /\ input.kind = "expr"
    /\ input.op1 = <<42>> /\ input.op2 = <<43>>
    /\ input.opds[2].ast = NumLit(<<49>>)
    /\ lit.nodes[1].expr.op = <<42>>
    /\ lit.nodes[1].expr.left.e = "Group"
    /\ lit.nodes[1].expr.right.op = <<43>>
    /\ lit.nodes[1].expr.right.left = NumLit(<<49>>)

---------------------------------------------------------------------------

RECURSIVE CondsIn(_)
\* the arm lists of the Cond nodes of a node list, at any depth of Cond arms
CondsIn(nodes) ==
    UNION {IF nodes[i].n = "Cond"
           THEN {nodes[i].conds}
                    \cup UNION {CondsIn(nodes[i].conds[j][3]) : j \in 1..Len(nodes[i].conds)}
           ELSE {} : i \in 1..Len(nodes)}

FirstArmHasCondition(conds) == conds[1][2] # <<>>

ElseOnlyLast(conds) == \A i \in 1..Len(conds) : conds[i][2] = <<>> => i = Len(conds)

(* C14. In every Cond node the parser produces, the first arm has a condition  *)
(* and an arm without a condition (the else arm) occurs at most once and only *)
(* as the last arm: a template with an arm after its else arm is not          *)
(* accepted as a Cond.                                                         *)
C14_TerminalElse ==
    Parsed => \A conds \in CondsIn(lit.nodes) :
                  FirstArmHasCondition(conds) /\ ElseOnlyLast(conds)

\* the arms of the Cond that `{% if a %}... {% endif %}` of a case parses to
ArmsOfCase == lit.nodes[1].conds

(* C14, what the parser does: it accepts every sequence of else and else if    *)
(* arms, and the Cond has the arms in the order they are written; the first    *)
(* arm always has a condition.                                                 *)
C14_ArmsAsWritten ==
    (pc = "parse_done" /\ input.kind = "cond")
        => /\ lit.panic = ""
           /\ Len(ArmsOfCase) = 1 + Len(input.arms)
           /\ \A i \in 1..Len(input.arms) :
                  (ArmsOfCase[i + 1][2] = <<>>) <=> (input.arms[i] = "else")
           /\ \A conds \in CondsIn(lit.nodes) : FirstArmHasCondition(conds)

\* `{% if a %}A{% else %}B{% else if c %}C{% endif %}` has been parsed to a Cond
C14_ArmsAsWritten_Witness ==
    /\ Parsed /\ input.kind = "cond" /\ input.arms = <<"else", "else if">>
    /\ Len(ArmsOfCase) = 3 /\ ArmsOfCase[2][2] = <<>> /\ ArmsOfCase[3][2] # <<>>

---------------------------------------------------------------------------

\* the grammar consumed the whole template
Consumed == parse_template(bytes).kind = "Ok" /\ parse_template(bytes).rest = <<>>

WholeTemplate == pc = "parse_done" => (lit.panic = "" <=> Consumed)

UnknownKeywordAborts ==
    (pc = "parse_done" /\ input.kind = "tag" /\ input.keyword \notin StatementForms)
        => lit.panic # ""

(* C15. parse aborts with a syntax error whenever the grammar cannot consume   *)
(* the whole template, in particular for a {% ... %} tag whose keyword is not  *)
(* one of the ten statement forms; it never returns a node list for a          *)
(* template with unconsumed input.                                             *)
C15_SyntaxError == WholeTemplate /\ UnknownKeywordAborts

(* C15, what the parser does: it returns a node list exactly when the grammar  *)
(* consumed the whole template, and a tag is refused when it does not begin    *)
(* with one of the ten keywords; a keyword is matched as a prefix of the word, *)
(* so `lettuce` is read as `let tuce` and `callm()` as `call m()`.             *)
C15_KeywordPrefix ==
    /\ WholeTemplate
    /\ (pc = "parse_done" /\ input.kind = "tag")
          => (lit.panic = "" <=> input.keyword \in StatementForms \cup {"lettuce", "callm"})

\* `{% lettuce %}` has been parsed to the declaration of the variable tuce
C15_KeywordPrefix_Witness ==
    /\ Parsed /\ input.kind = "tag" /\ input.keyword = "lettuce"
    /\ \E i \in 1..Len(lit.nodes) :
           lit.nodes[i].n = "LetDecl" /\ lit.nodes[i].var = Bs(<<"t", "u", "c", "e">>)

\* `{% extend "blah" %}` has been refused
C15_Refused_Witness ==
    pc = "parse_done" /\ input.kind = "tag" /\ input.keyword = "extend" /\ lit.panic # ""

---------------------------------------------------------------------------
(* The trait name *)

\* the number of hexadecimal digits of n
HexLen(n) == CHOOSE m \in 1..8 : n < 16 ^ m /\ (m = 1 \/ n >= 16 ^ (m - 1))

\* the hexadecimal form of n written with at least `width` digits
HexForm(n, width) ==
    LET m == IF HexLen(n) > width THEN HexLen(n) ELSE width
    IN [k \in 1..m |-> HexDigit((n \div (16 ^ (m - k))) % 16)]

RECURSIVE Encoding(_, _)
\* a path with its alphanumeric characters kept and the others in hexadecimal
Encoding(path, width) ==
    IF path = <<>> THEN <<>>
    ELSE Encoding(SubSeq(path, 1, Len(path) - 1), width)
             \o (IF is_alphanumeric(path[Len(path)]) THEN <<CharToken(path[Len(path)])>>
                 ELSE HexForm(path[Len(path)], width))

\* the path the trait is named after: the parent's if the template extends one
ResolvedPath ==
    IF \E i \in 1..Len(input.nodes) : IsExtends(input.nodes[i])
    THEN input.dirs \o (CHOOSE e \in {input.nodes[i] : i \in 1..Len(input.nodes)} : IsExtends(e)).expr.s
    ELSE input.path

StateBuilt == pc \notin {"new", "panic"}

(* C16. trait_name is `TraitFrom` followed by the resolved path (the extended   *)
(* parent's if the template is derived, else its own) with every alphanumeric  *)
(* character kept and every other code point replaced by the lower-case        *)
(* hexadecimal form of its value, written with at least four hex digits.       *)
C16_TraitNameFourDigits ==
    StateBuilt => state.trait_name = <<"TraitFrom">> \o Encoding(ResolvedPath, 4)

(* C16, amended: ... replaced by the lower-case hexadecimal form of its value, *)
(* written without padding (`/` becomes `2f`, U+2192 becomes `2192`).          *)
C16_TraitName ==
    StateBuilt => state.trait_name = <<"TraitFrom">> \o Encoding(ResolvedPath, 1)

\* the state of a template that extends `/a` in the directory `a/`
C16_Witness ==
    /\ StateBuilt /\ state.derived
    /\ ResolvedPath = <<97, 47, 47, 97>>
    /\ state.trait_name = <<"TraitFrom", "a", "2", "f", "2", "f", "a">>

---------------------------------------------------------------------------
(* Include scoping *)

ScopeNames == {"a", "q", "y", "z", "w", "it", "x"}

\* the calls of handle_include that have not returned, as positions of the stack
IncludeFrames == {k \in 1..Len(stack) : stack[k].k = "include"}

\* every name in scope at the site of a pending include is in scope in the
\* generator that is emitting
IncluderNamesVisible ==
    pc = "run" =>
        \A k \in IncludeFrames : \A v \in ScopeNames :
            contains(stack[k].parent.locals, v) => contains(g.locals, v)

\* the text the step appends to the buffer of the generator that is emitting
Appended == SubSeq(g'.buf, Len(g.buf) + 1, Len(g'.buf))

\* the step emits the variable v as written, not as a field of self
EmitsBare(v) ==
    \E i \in 1..(Len(Appended) - 1) : Appended[i] = "let askama_expr = &" /\ Appended[i + 1] = v

\* inside an include, the output of a variable the includer has in scope
BareInInclude ==
    (AtNode("Expr") /\ Cur.expr.e = "Var" /\ IncludeFrames # {}
        /\ \E k \in IncludeFrames : contains(stack[k].parent.locals, Cur.expr.s))
    => EmitsBare(Cur.expr.s)

\* the return of handle_include leaves the scope chain of the includer as it was
IncluderUnchanged ==
    (Running /\ Top.k = "include") => (pc' = "panic" \/ g'.locals = Top.parent.locals)

(* C17. Include scoping: while the body of an included template is generated,  *)
(* every name in the includer's active scopes at the include site is in scope  *)
(* (a Var of that name is emitted bare, not as self.<name>); names bound       *)
(* inside the included template go to the child generator's scopes only, and   *)
(* the includer's scope stack is unchanged after the include.                  *)
C17_IncludeScoping ==
    /\ []IncluderNamesVisible
    /\ [][BareInInclude]_vars
    /\ [][IncluderUnchanged]_vars

\* after an include inside a loop over `a`: the file has emitted `a` bare through
\* the parent link and bound z and w, and in the includer `a` is in scope, z and w are not
C17_Witness ==
    /\ Passed({"Include"}) /\ PassedNode.path = "incv"
    /\ contains(g.locals, "a") /\ ~contains(g.locals, "z") /\ ~contains(g.locals, "w")
    /\ Len(g.locals.scopes) >= 2
    /\ \E i \in 1..(Len(g.buf) - 1) : g.buf[i] = "let askama_expr = &" /\ g.buf[i + 1] = "a"
    /\ \E i \in 1..(Len(g.buf) - 1) : g.buf[i] = "let askama_expr = &" /\ g.buf[i + 1] = "z"

---------------------------------------------------------------------------
(* Whitespace-only literals *)

\* the number of statements of buf that write the string s
TimesWritten(buf, s) ==
    Cardinality({k \in 1..(Len(buf) - 2) :
                    buf[k] = "writer.write_str(" /\ buf[k + 2] = escape_debug(s)})

\* the places of a node sequence that hold a whitespace-only literal between two directives
WsOnlyBetween(nodes) ==
    {i \in 2..(Len(nodes) - 1) :
        /\ nodes[i].n = "Lit" /\ nodes[i].val = "" /\ nodes[i].lws # ""
        /\ nodes[i - 1].n # "Lit" /\ nodes[i + 1].n # "Lit"}

\* what the claim C18 says of the literal at place i once its neighbours are handled
WrittenOnceIff(nodes, i, gen) ==
    /\ TimesWritten(gen.buf, nodes[i].lws) <= 1
    /\ TimesWritten(gen.buf, nodes[i].lws) = 1
           <=> (~post_sigil(nodes[i - 1]) /\ ~pre_sigil(nodes[i + 1]))

StashOrDrop ==
    (AtNode("Lit") /\ Cur.val = "" /\ Cur.lws # "" /\ g.next_ws = <<>>)
        => /\ g'.buf = g.buf
           /\ g'.skip_ws = FALSE
           /\ g'.next_ws = IF g.skip_ws THEN <<>> ELSE <<Cur.lws>>

(* C18 away from `extends`: the same for the literals neither neighbour of     *)
(* which is an `extends` directive; with skip_ws set the literal is dropped    *)
(* and skip_ws cleared, otherwise it is stashed in next_ws.                    *)
C18_AwayFromExtends ==
    /\ [](SeqDone =>
            \A i \in WsOnlyBetween(Top.nodes) :
                (Top.nodes[i - 1].n # "Extends" /\ Top.nodes[i + 1].n # "Extends")
                    => WrittenOnceIff(Top.nodes, i, g))
    /\ [][StashOrDrop]_vars

\* a whitespace-only literal between two directives without sigils has been written once
C18_AwayFromExtends_Witness ==
    /\ SeqDone
    /\ \E i \in WsOnlyBetween(Top.nodes) :
          /\ Top.nodes[i - 1].n # "Extends" /\ Top.nodes[i + 1].n # "Extends"
          /\ ~post_sigil(Top.nodes[i - 1]) /\ ~pre_sigil(Top.nodes[i + 1])
          /\ TimesWritten(g.buf, Top.nodes[i].lws) = 1

---------------------------------------------------------------------------
(* Block collection *)

RECURSIVE ChildBlocks(_)
\* the BlockDefs that are direct children of the blocks of a list, in order
ChildBlocks(level) ==
    IF level = <<>> THEN <<>>
    ELSE SelectSeq(Head(level).nodes, IsBlockDef) \o ChildBlocks(Tail(level))

RECURSIVE ByLevels(_)
\* a list of blocks, then their children, then the children of those, ...
ByLevels(level) == IF level = <<>> THEN <<>> ELSE level \o ByLevels(ChildBlocks(level))

RECURSIVE CountBlocks(_)
\* the number of BlockDefs of a node list and of the bodies of its BlockDefs
CountBlocks(nodes) ==
    IF nodes = <<>> THEN 0
    ELSE (IF IsBlockDef(Head(nodes)) THEN 1 + CountBlocks(Head(nodes).nodes) ELSE 0)
             + CountBlocks(Tail(nodes))

\* the names of the blocks buf calls, and of the blocks buf defines a method for
CallSites(buf) == {buf[k + 1] : k \in {j \in 1..(Len(buf) - 1) : buf[j] = ".render_block_"}}

MethodDefs(buf) == {buf[k + 1] : k \in {j \in 1..(Len(buf) - 1) : buf[j] = "fn render_block_"}}

(* C19. Block collection: State::new yields `blocks` equal to the top-level     *)
(* BlockDefs in source order followed by the BlockDefs that are direct         *)
(* children of already-listed blocks in breadth-first order, each exactly      *)
(* once; every render_block_<name>_into call site the generator emits refers   *)
(* to a block of `blocks`, which has a method definition in the finished text. *)
C19_BlockCollection ==
    /\ StateBuilt =>
          /\ state.blocks = ByLevels(SelectSeq(input.nodes, IsBlockDef))
          /\ Len(state.blocks) = CountBlocks(input.nodes)
    /\ pc \in {"run", "done"} =>
          CallSites(g.buf) \subseteq {state.blocks[i].name : i \in 1..Len(state.blocks)}
    /\ pc = "done" => CallSites(g.buf) \subseteq MethodDefs(g.buf)

\* two top-level blocks with two children each: the children come after both
C19_Witness ==
    /\ pc = "done" /\ ~state.derived
    /\ [i \in 1..Len(state.blocks) |-> state.blocks[i].name] = <<"b1", "b2", "b11", "b12", "b21", "b22">>
    /\ {"b1", "b2", "b11", "b12", "b21", "b22"} \subseteq (CallSites(g.buf) \cap MethodDefs(g.buf))

---------------------------------------------------------------------------
(* Indentation *)

\* the places of the line breaks of a text
Breaks(text) == {k \in 1..Len(text) : text[k] = "\n"}

\* the part of a text that ends at the line break at place k and begins after
\* the line break before it
LineAt(text, k) ==
    LET before == {j \in Breaks(text) : j < k}
        from == IF before = {} THEN 1 ELSE 1 + CHOOSE j \in before : \A m \in before : m <= j
    IN SubSeq(text, from, k - 1)

\* the part of a text that begins at place s and ends before the next line break
LineFrom(text, s) ==
    LET after == {j \in Breaks(text) : j >= s}
        to == IF after = {} THEN Len(text) ELSE (CHOOSE j \in after : \A m \in after : m >= j) - 1
    IN SubSeq(text, s, to)

\* the number of "    " tokens a line starts with
LeadingIndent(line) ==
    Cardinality({i \in 1..Len(line) : \A j \in 1..i : line[j] = "    "})

\* the line closes a brace at its start: `}` alone, or the next arm of an if chain,
\* before which write_cond takes the depth down itself
Closes(line) ==
    LET text == SelectSeq(line, NotIndent)
    IN text = <<"}">> \/ (text # <<>> /\ text[1] \in {"} else", "} else if "})

Opens(line) == ends_with_brace(SelectSeq(line, NotIndent))

\* the step goes on writing into the buffer it found
SameBuffer ==
    /\ pc = "run" /\ pc' # "panic"
    /\ Top.k # "include" /\ ~AtNode("Include")
    /\ Len(g'.buf) > Len(g.buf)

\* the places of Appended where a line begins
LineStarts ==
    (IF g.buf = <<>> \/ g.buf[Len(g.buf)] = "\n" THEN {1} ELSE {})
        \cup {k + 1 : k \in {j \in Breaks(Appended) : j < Len(Appended)}}

\* the depth of the line that begins at place s of Appended: the depth the step
\* began with, one more for every line that ended in `{` since, one less for
\* every line that closed a brace, this line included
DepthOf(s) ==
    g.indent
        + Cardinality({k \in Breaks(Appended) : k < s /\ Opens(LineAt(Appended, k))})
        - Cardinality({k \in Breaks(Appended) : k < s /\ Closes(LineAt(Appended, k))})
        - (IF Closes(LineFrom(Appended, s)) THEN 1 ELSE 0)

\* every line the step begins starts with 4 x depth spaces
StepIndented ==
    SameBuffer => \A s \in LineStarts : LeadingIndent(LineFrom(Appended, s)) = DepthOf(s)

IndentationAborts == {"dedent() called while indentation == 0",
                      "attempt to multiply with overflow", "attempt to add with overflow"}

(* C20. Indentation: every emitted line starts with exactly 4 x depth spaces,  *)
(* where depth is increased by one after a line ending in `{` and decreased by *)
(* one before a line that closes it; this holds at every nesting depth a       *)
(* template can reach, and depth never underflows.                             *)
C20_Indentation == [][StepIndented]_vars /\ [](err \notin IndentationAborts)

\* `start` is stale: the buffer ends with a line break, which an include
\* spliced in, and the generator takes the line to have begun
StaleStart == g.buf # <<>> /\ g.buf[Len(g.buf)] = "\n" /\ ~g.start

(* C20 below depth 64, where depth * 4 fits 8 bits, and where no include has   *)
(* been spliced into a begun line: every line starts with 4 x depth spaces;    *)
(* the depth never underflows; at depth 64 the generator aborts if it is       *)
(* built with overflow checks.                                                 *)
C20_BelowOverflow ==
    /\ [][(SameBuffer /\ ~StaleStart) =>
            \A s \in LineStarts :
                DepthOf(s) < 64 => LeadingIndent(LineFrom(Appended, s)) = DepthOf(s)]_vars
    /\ [](err # "dedent() called while indentation == 0")
    /\ [](err \in IndentationAborts => (g.indent >= 64 /\ input.overflow_checks))

\* the line the generator wrote last
LastLine == LineAt(g.buf, Len(g.buf))

\* a line at depth 63 has been written, indented by 63 x 4 spaces
C20_BelowOverflow_Witness ==
    /\ pc = "run" /\ g.indent = 63 /\ g.start /\ g.buf # <<>>
    /\ ~Opens(LastLine) /\ ~Closes(LastLine)
    /\ LeadingIndent(LastLine) = 63

\* a line at depth 64 has been written with no space at all
C20_Wrapped_Witness ==
    /\ pc = "run" /\ ~input.overflow_checks /\ g.indent = 64 /\ g.start /\ g.buf # <<>>
    /\ ~Opens(LastLine) /\ ~Closes(LastLine)
    /\ LeadingIndent(LastLine) = 0

\* a macro with a parameter whose body begins with an include: the line after
\* the included text is about to begin, and the generator will not indent it
C20_Stale_Witness == pc = "run" /\ StaleStart /\ g.indent > 0

\* the generator built with overflow checks has aborted at depth 64
C20_Aborted_Witness ==
    pc = "panic" /\ err = "attempt to multiply with overflow" /\ g.indent = 64

---------------------------------------------------------------------------
(* The assertion of write_lit *)

(* C21. The assertion at the head of write_lit never fails: whenever the walk  *)
(* is about to emit a Lit node, next_ws is unset, because every directive that *)
(* can stand between two literals, `extends` included, has cleared the pending *)
(* whitespace before the next literal.                                         *)
C21_NextWsUnsetAtLit ==
    /\ AtNode("Lit") => g.next_ws = <<>>
    /\ err # "assertion failed: self.next_ws.is_none()"

\* the directive before the literal the walk is at
BeforeCur == Top.nodes[Top.i - 1]

(* C21 away from `extends`: next_ws is unset whenever the walk is about to     *)
(* emit a Lit node that does not follow an `extends` directive.                *)
C21_UnsetAfterDirective ==
    (AtNode("Lit") /\ Top.i > 1 /\ BeforeCur.n # "Extends") => g.next_ws = <<>>

\* a literal with a trailing run, a directive without sigils, and the walk at
\* the literal after it with next_ws cleared
C21_UnsetAfterDirective_Witness ==
    /\ AtNode("Lit") /\ Top.i > 2
    /\ BeforeCur.n \notin {"Extends", "Lit"} /\ ~pre_sigil(BeforeCur)
    /\ Top.nodes[Top.i - 2].n = "Lit" /\ Top.nodes[Top.i - 2].rws # ""
    /\ g.next_ws = <<>> /\ Written(g.buf, Top.nodes[Top.i - 2].rws)

\* `A\t{% extends "ba" %}B`: the walk is at the second literal with the trailing
\* run of the first still pending
C21_PendingAtLit_Witness ==
    AtNode("Lit") /\ Top.i > 1 /\ BeforeCur.n = "Extends" /\ g.next_ws # <<>>

---------------------------------------------------------------------------
(* The arguments of a macro call *)

\* write_call has bound the parameters and is about to walk the macro's body
InCallBegin ==
    /\ pc = "run" /\ Len(stack) >= 3
    /\ Top.k = "handle" /\ Top.i = 1
    /\ stack[2].k = "call" /\ stack[3].k = "handle"

\* the Call node of the call, and the scopes of the call site
CallNode == stack[3].nodes[stack[3].i - 1]

CallSite == stack[2].saved

\* the tokens toks stand in buf, one after the other
Occurs(buf, toks) ==
    \E k \in 0..(Len(buf) - Len(toks)) : SubSeq(buf, k + 1, k + Len(toks)) = toks

\* the binding of a parameter to the variable v, v being emitted bare or not
Binding(param, v, bare) ==
    <<"let ", param, " = &">> \o (IF bare THEN <<v>> ELSE <<"self.", v>>) \o <<";">>

\* the places of the arguments of the call that are a variable
VarArgs == {i \in 1..Len(stack[2].def.args) : CallNode.args[i].e = "Var"}

(* C22. Macro call argument hygiene: each argument of a call is compiled       *)
(* against the scopes of the call site only: a variable in an argument is      *)
(* emitted bare iff it was in scope before the call, and as self.<name>        *)
(* otherwise, whatever the names of the macro's parameters.                    *)
C22_ArgumentHygiene ==
    InCallBegin =>
        \A i \in VarArgs :
            Occurs(g.buf, Binding(stack[2].def.args[i], CallNode.args[i].s,
                                  contains(CallSite, CallNode.args[i].s)))

\* the parameters bound for the arguments before the i-th
EarlierParameters(i) == {stack[2].def.args[j] : j \in 1..(i - 1)}

(* C22, what write_call does: a variable in an argument is emitted bare iff it *)
(* was in scope before the call or is the name of a parameter bound for an     *)
(* earlier argument of the same call.                                          *)
C22_EarlierParametersCapture ==
    InCallBegin =>
        \A i \in VarArgs :
            Occurs(g.buf, Binding(stack[2].def.args[i], CallNode.args[i].s,
                                  \/ contains(CallSite, CallNode.args[i].s)
                                  \/ CallNode.args[i].s \in EarlierParameters(i)))

\* `{% call m2(x, a) %}` of the macro m2(a, b), no `a` in scope at the call:
\* the second binding reads the parameter a
C22_EarlierParametersCapture_Witness ==
    /\ InCallBegin /\ stack[2].def.args = <<"a", "b">>
    /\ CallNode.args = <<Var("x"), Var("a")>>
    /\ ~contains(CallSite, "a")
    /\ Occurs(g.buf, Binding("a", "x", FALSE)) /\ Occurs(g.buf, Binding("b", "a", TRUE))

---------------------------------------------------------------------------
(* The whitespace of a branch *)

\* the tokens that close an emitted block
CloseTokens == {"}", "} else", "} else if "}

\* the places of buf where a statement that writes the string s begins
WritesAt(buf, s) ==
    {k \in 1..(Len(buf) - 2) : buf[k] = "writer.write_str(" /\ buf[k + 2] = escape_debug(s)}

\* buf writes s and later t with no block closed in between
SameBlock(buf, s, t) ==
    \E p \in WritesAt(buf, s), q \in WritesAt(buf, t) :
        p < q /\ \A k \in p..q : buf[k] \notin CloseTokens

\* the arms of an if chain or of a match: the sigils of the tag and the body
ArmsOf(n) ==
    IF n.n = "Cond"
    THEN [i \in 1..Len(n.conds) |-> [ws |-> n.conds[i][1], body |-> n.conds[i][3]]]
    ELSE [i \in 1..Len(n.arms) |-> [ws |-> n.arms[i][1], body |-> n.arms[i][4]]]

\* the pre sigil of the tag that ends arm k: the next arm's, or the closing tag's
ClosingSigil(n, k) ==
    IF k < Len(ArmsOf(n)) THEN ArmsOf(n)[k + 1].ws[1]
    ELSE IF n.n = "Cond" THEN n.ws[1] ELSE n.ws2[1]

LastOf(body) == body[Len(body)]

\* the arms whose body ends in a literal with a trailing run
TrailingArms(n) ==
    {k \in 1..Len(ArmsOf(n)) :
        /\ ArmsOf(n)[k].body # <<>>
        /\ LastOf(ArmsOf(n)[k].body).n = "Lit"
        /\ LastOf(ArmsOf(n)[k].body).val # "" /\ LastOf(ArmsOf(n)[k].body).rws # ""}

\* the trailing run of every such arm is written in the block of the arm
ArmLocal(n) ==
    \A k \in TrailingArms(n) :
        ~ClosingSigil(n, k)
            => SameBlock(g.buf, LastOf(ArmsOf(n)[k].body).val, LastOf(ArmsOf(n)[k].body).rws)

\* the run between `match` and the first `when` is written in the first arm
InterLocal(n) ==
    (n.n = "Match" /\ n.inter # <<>> /\ n.inter[1] # "" /\ ~n.arms[1][1][1])
        => \E p \in 1..Len(g.buf), q \in WritesAt(g.buf, n.inter[1]) :
               /\ g.buf[p] = " => {" /\ p < q
               /\ \A k \in 1..q : (k < p => g.buf[k] # " => {")
                                     /\ (k > p => g.buf[k] \notin CloseTokens)

\* the if chains and the matches of the top level of the template
Branching(kinds) == {i \in 1..Len(input.nodes) : input.nodes[i].n \in kinds}

(* C23. Branch-local whitespace: once the template is generated, the trailing  *)
(* run of the last literal of every if/else arm and of every match arm, when   *)
(* the tag that ends the arm does not suppress it, is written inside the       *)
(* emitted block of that arm, and the run between `match` and the first `when` *)
(* inside the block of the first arm.                                          *)
C23_BranchLocal ==
    pc = "done" =>
        \A i \in Branching({"Cond", "Match"}) :
            ArmLocal(input.nodes[i]) /\ InterLocal(input.nodes[i])

(* C23 for if chains, and for the run after `match`: these are written in the  *)
(* block of the arm.                                                           *)
C23_CondArmLocal ==
    pc = "done" =>
        /\ \A i \in Branching({"Cond"}) : ArmLocal(input.nodes[i])
        /\ \A i \in Branching({"Match"}) : InterLocal(input.nodes[i])

\* `{% if x %}B\n{% else %}C\t{% endif %}Z` is generated, each run written in its arm
C23_CondArmLocal_Witness ==
    /\ pc = "done" /\ input \in BranchCases /\ input.nodes[1].n = "Cond"
    /\ TrailingArms(input.nodes[1]) = {1, 2}
    /\ ~ClosingSigil(input.nodes[1], 1) /\ ~ClosingSigil(input.nodes[1], 2)
    /\ SameBlock(g.buf, "B", "\n") /\ SameBlock(g.buf, "C", "\t")

\* the trailing run of a match arm is written, but not in the block of the arm:
\* that of the first arm in the second arm, that of the last after the match
C23_MatchArmLeaks_Witness ==
    /\ pc = "done" /\ input \in BranchCases /\ input.nodes[1].n = "Match"
    /\ ~ClosingSigil(input.nodes[1], 1) /\ ~ClosingSigil(input.nodes[1], 2)
    /\ Written(g.buf, "\n") /\ ~SameBlock(g.buf, "B", "\n")
    /\ Written(g.buf, "\t") /\ ~SameBlock(g.buf, "C", "\t")

---------------------------------------------------------------------------
(* The whitespace machine at the start of the top-level body *)

\* the walk of the template's top-level body is about to begin
TopLevelStarts == pc = "run" /\ Top.k = "handle" /\ Top.level = "Top" /\ Top.i = 1

\* the template begins with a literal that has a leading run and a body
FirstLitLeads ==
    /\ input.nodes # <<>> /\ input.nodes[1].n = "Lit"
    /\ input.nodes[1].lws # "" /\ input.nodes[1].val # ""

(* C24. When the emission of the template's top-level body starts, next_ws is  *)
(* unset and skip_ws is false, whichever block bodies the generator emitted    *)
(* before; the leading run of the template's first literal is written.         *)
C24_InitialAtTopLevel ==
    /\ TopLevelStarts => (g.next_ws = <<>> /\ ~g.skip_ws)
    /\ (pc = "done" /\ ~state.derived /\ FirstLitLeads) => Written(g.buf, input.nodes[1].lws)

\* the block write_block_defs emitted last
LastBlock == state.blocks[Len(state.blocks)]

\* skip_ws as the walk of the node sequence nodes leaves it, entered with skip
RECURSIVE SkipAfter(_, _)
SkipAfter(nodes, skip) ==
    IF nodes = <<>> THEN skip
    ELSE LET last == LastOf(nodes)
         IN IF last.n = "Lit" /\ last.lws # "" THEN FALSE
            ELSE IF last.n \in {"Lit", "Extends"}
                 THEN SkipAfter(SubSeq(nodes, 1, Len(nodes) - 1), skip)
                 ELSE post_sigil(last)

(* C24, what the generator does: at the start of the top-level body next_ws is *)
(* unset; skip_ws is false if no block was emitted before, and otherwise is as *)
(* the body of the last block left it: the post sigil of the last directive of *)
(* that body, or of the `block` tag, if no literal with a leading run follows. *)
C24_SkipLeftByLastBlock ==
    TopLevelStarts =>
        /\ g.next_ws = <<>>
        /\ g.skip_ws = IF state.blocks = <<>> THEN FALSE
                       ELSE SkipAfter(LastBlock.nodes, LastBlock.ws1[2])

\* ` A{% block b -%}B{% endblock %}`: the top-level body starts with skip_ws set
C24_SkipLeftByLastBlock_Witness ==
    /\ TopLevelStarts /\ FirstLitLeads /\ state.blocks # <<>>
    /\ LastBlock.ws1[2] /\ LastBlock.nodes = <<Lit("", "B", "")>>
    /\ g.skip_ws /\ g.next_ws = <<>>

\* the template is generated, and the leading run of its first literal is not written
C24_LeadingRunLost_Witness ==
    /\ pc = "done" /\ ~state.derived /\ FirstLitLeads /\ input \in BlockSigilCases
    /\ ~Written(g.buf, input.nodes[1].lws) /\ Written(g.buf, input.nodes[1].val)

---------------------------------------------------------------------------
(* The temporaries of argument lifting *)

\* the places of buf where a temporary varN is used, and where one is bound
VarUses(buf) == {k \in 1..(Len(buf) - 1) : buf[k] = "var" /\ (k = 1 \/ buf[k - 1] # "let ")}

VarLets(buf) == {j \in 1..(Len(buf) - 2) : buf[j] = "let " /\ buf[j + 1] = "var"}

ClosedIn(buf, a, b) == Cardinality({m \in a..b : buf[m] \in CloseTokens})

OpenedIn(buf, a, b) == Cardinality({m \in a..b : buf[m] \in BraceTokens})

\* place k of buf is in the block of place j, or in a block inside it
InBlockOf(buf, j, k) == \A m \in j..k : ClosedIn(buf, j, m) <= OpenedIn(buf, j, m)

\* the temporary used at place k is bound before, in the same block or an enclosing one
BoundBefore(buf, k) ==
    \E j \in VarLets(buf) : j < k /\ buf[j + 2] = buf[k + 1] /\ InBlockOf(buf, j, k)

\* place k of buf is in the condition of an `else if`
InElseIf(buf, k) ==
    \E j \in 1..k : buf[j] = "} else if " /\ \A m \in j..k : buf[m] # "\n"

(* C25. Every temporary varN of argument lifting is bound by a `let` emitted   *)
(* before the statement that uses it, in the same emitted block or in an       *)
(* enclosing one, wherever the lifted expression stands: an output expression, *)
(* a `let` value, an `if` or `else if` condition, a `for` iterable, a `match`  *)
(* subject or a macro call argument.                                           *)
C25_TemporariesBound == \A k \in VarUses(g.buf) : BoundBefore(g.buf, k)

(* C25 but for `else if`: every temporary used anywhere but in the condition   *)
(* of an `else if` is bound before its use in the same block or an enclosing   *)
(* one; one used in the condition of an `else if` is bound before it too, but  *)
(* inside the block of the arm before.                                         *)
C25_BoundButInElseIf ==
    \A k \in VarUses(g.buf) :
        /\ \E j \in VarLets(g.buf) : j < k /\ g.buf[j + 2] = g.buf[k + 1]
        /\ ~InElseIf(g.buf, k) => BoundBefore(g.buf, k)

\* the expression x|upper(x|safe, x|e) has been emitted in every place but an
\* `else if`: as a for iterable, with var0 and var1 bound before the `for`
C25_BoundButInElseIf_Witness ==
    /\ pc = "done" /\ input \in LiftCases /\ input.nodes[1].n = "Loop"
    /\ Cardinality(VarUses(g.buf)) = 2
    /\ \A k \in VarUses(g.buf) : ~InElseIf(g.buf, k) /\ BoundBefore(g.buf, k)
    /\ Occurs(g.buf, <<"for (_loop_index, ", "it", ") in (&", "::askama::filters::", "upper",
                        "(&", "self.", "x", ", &", "var", "0", ", &", "var", "1", ")?",
                        ").into_iter().enumerate() {">>)

\* `{% if x %}...{% else if x|safe|upper %}`: var0 is bound in the block of the
\* first arm and used in the condition after that block is closed
C25_ElseIfUnbound_Witness ==
    /\ pc = "done" /\ input \in LiftCases
    /\ \E k \in VarUses(g.buf) : InElseIf(g.buf, k) /\ ~BoundBefore(g.buf, k)

---------------------------------------------------------------------------
(* Termination *)

Finished == pc \in {"done", "panic"}

\* the frames of the calls of write_call that have not returned
PendingCalls == {k \in 1..Len(stack) : stack[k].k = "call"}

\* the expansion of a macro has begun inside an expansion of the same macro
Reentered == \E i, j \in PendingCalls : i < j /\ stack[i].def = stack[j].def

(* C26. generate terminates for every template whose include graph is          *)
(* acyclic: the walk of the nodes and the expansion of the macros by `call`    *)
(* finish, with output or with a fatal error, also when the body of a macro    *)
(* holds a `call` of the macro itself or of a macro that calls it back.  The   *)
(* walk of a macro body is the same at every expansion, so an expansion that   *)
(* is begun inside an expansion of the same macro begins the next one in turn  *)
(* and the walk has no end: termination is that no macro is expanded inside    *)
(* its own expansion.                                                          *)
C26_Terminates == ~Reentered

(* C26 for the templates no macro of which calls itself, directly or through   *)
(* another macro: generate finishes.                                           *)
C26_TerminatesWithoutRecursion ==
    (input \notin CycleCases \cup RecursiveMacroCases) => <>Finished

\* a template with a macro call inside a macro call has been generated
C26_TerminatesWithoutRecursion_Witness ==
    /\ pc = "done" /\ input \in NestCases /\ input.nodes[1].n = "Call"
    /\ state.macros[<<input.nodes[1].scope, input.nodes[1].name>>].nodes[1].n = "Call"

(* C26, what the generator does when a macro calls itself or is called back:   *)
(* it goes on expanding, and neither finishes nor aborts.                      *)
C26_RecursionGoesOn == input \in RecursiveMacroCases => ~Finished

\* the expansion of `{% macro r() %}R{% call r() %}{% endmacro %}{% call r() %}`
\* has been followed through MaxCall nested calls and is at the next one
C26_RecursionGoesOn_Witness ==
    input \in RecursiveMacroCases /\ CallDepth = MaxCall /\ AtNode("Call")

---------------------------------------------------------------------------
(* The whitespace pending at the end of a node sequence *)

\* the next step follows the walk of the top-level body, of a block body, of a
\* macro body or of an included template
EndsSequence(kinds) ==
    /\ pc = "run" /\ Top.k \in kinds
    /\ Top.k = "blockdefs" => Top.open

SequenceEnds == {"impl_template_end", "impl_trait_end", "blockdefs", "call", "include"}

\* the pre sigil of the tag that closes the sequence; the top level and an
\* included template have no closing tag
ClosingPre ==
    CASE Top.k = "blockdefs" -> state.blocks[Top.i].ws2[1]
      [] Top.k = "call" -> Top.def.ws2[1]
      [] OTHER -> FALSE

\* the text the step adds after the text of the walked sequence
AddedAfter ==
    IF Top.k = "include"
    THEN SubSeq(g'.buf, Len(Top.parent.buf) + Len(g.buf) + 1, Len(g'.buf))
    ELSE SubSeq(g'.buf, Len(g.buf) + 1, Len(g'.buf))

\* the step writes the pending run, unless the closing tag suppresses it
FlushesPending ==
    (g.next_ws # <<>> /\ g.next_ws[1] # "" /\ pc' # "panic")
        => (Occurs(AddedAfter, write_str(g.next_ws[1])) <=> ~ClosingPre)

(* C27. Pending trailing whitespace is never lost at the end of a node         *)
(* sequence: the step that follows the walk of the top-level body, of a block  *)
(* body, of a macro body or of an included template writes a pending next_ws,  *)
(* unless the pre sigil of the closing tag suppresses it.                      *)
C27_PendingFlushed == [][EndsSequence(SequenceEnds) => FlushesPending]_vars

(* C27 but for includes: after the top-level body, a block body and a macro    *)
(* body the pending run is written unless suppressed; after the walk of an     *)
(* included template handle_include adds nothing to the child's text, and the  *)
(* run pending in the child generator is dropped.                              *)
C27_FlushedButInclude ==
    /\ [][EndsSequence(SequenceEnds \ {"include"}) => FlushesPending]_vars
    /\ [][EndsSequence({"include"}) => (pc' # "panic" => AddedAfter = <<>>)]_vars

\* the macro m1 with the body `  B\n` has been expanded, its closing tag has no
\* pre sigil, and the "\n" is written before the closing brace
C27_FlushedButInclude_Witness ==
    /\ pc = "run" /\ input \in TrailingCases /\ input.nodes[1].n = "Macro"
    /\ ~input.nodes[1].m.ws2[1]
    /\ Top.k = "handle" /\ Top.i = 3 /\ g.next_ws = <<>>
    /\ Occurs(g.buf, write_str("B") \o <<"\n">> \o Spaces(4 * (g.indent + 1))
                        \o write_str("\n") \o <<"\n">> \o Spaces(4 * g.indent) \o <<"}">>)

\* `A{% include "incw" %}Z`, incw being `I\n`, is generated: the "\n" is not written
C27_IncludeDrops_Witness ==
    /\ pc = "done" /\ input \in TrailingCases /\ Len(input.nodes) = 3
    /\ input.nodes[2].n = "Include" /\ input.nodes[2].ws = NoWS
    /\ Written(g.buf, "I") /\ Written(g.buf, "Z") /\ ~Written(g.buf, "\n")

=============================================================================
